---- MODULE Spec2Model ----
(***************************************************************************)
(* Model of the gest test runner (class TestRunner and main): the suite    *)
(* executor runTest / runTestCase / runHook and the runner orchestrator    *)
(* nextUnit / start that drains the shared testFileQueue.                  *)
(*                                                                         *)
(* Two specifications share the definitions of the executor:               *)
(*   SuiteSpec  one call of runTest on a test tree, with the call log;     *)
(*   Spec       NumRunners TestRunner instances draining one queue.        *)
(***************************************************************************)
EXTENDS Integers, Sequences, FiniteSets, TLC

\* ----------------------------------------------------------------- bounds
\* Number of TestRunner instances (config.parallel).
NumRunners == 2
\* Number of test units found by the directory walk.
NumUnits == 2
\* How many callbacks (hooks, cases) of one tree may throw in one run.
MaxThrows == 2

\* ------------------------------------------------------------- test trees
\* A Test (suite) as built by describe(): the hook lists, the cases (its)
\* and the child suites (subTests), all by name.
Suite(n, ba, be, ae, aa, its, subs) ==
  [name |-> n, beforeAll |-> ba, beforeEach |-> be, afterEach |-> ae,
   afterAll |-> aa, its |-> its, subTests |-> subs]

\* A three-level tree with hooks of every kind, two sibling child suites.
Tree1 ==
  [root |-> "A",
   suites |->
     ("A" :> Suite("A", <<"A.ba1">>, <<"A.be1">>, <<"A.ae1">>,
                   <<"A.aa1", "A.aa2">>, <<"a", "b">>, <<"B", "C">>)) @@
     ("B" :> Suite("B", <<"B.ba1">>, <<"B.be1">>, <<"B.ae1">>,
                   <<"B.aa1">>, <<"c", "d">>, <<"D">>)) @@
     ("D" :> Suite("D", <<>>, <<"D.be1">>, <<"D.ae1">>,
                   <<"D.aa1">>, <<"e">>, <<>>)) @@
     ("C" :> Suite("C", <<"C.ba1">>, <<>>, <<>>,
                   <<"C.aa1">>, <<"f">>, <<>>))]

\* A flat suite with three cases and no hooks.
Tree2 ==
  [root |-> "A",
   suites |->
     ("A" :> Suite("A", <<>>, <<>>, <<>>, <<>>, <<"a", "b", "c">>, <<>>))]

\* A root suite without cases of its own, and one child suite.
Tree3 ==
  [root |-> "E",
   suites |->
     ("E" :> Suite("E", <<"E.ba1">>, <<"E.be1">>, <<>>, <<"E.aa1">>,
                   <<>>, <<"F">>)) @@
     ("F" :> Suite("F", <<>>, <<>>, <<"F.ae1">>, <<>>, <<"g", "b">>, <<>>))]

Trees == <<Tree1, Tree2, Tree3>>

TreeIds == DOMAIN Trees

Range(s) == {s[i] : i \in DOMAIN s}

SuiteNames(t) == DOMAIN t.suites

HooksOf(s) ==
  Range(s.beforeAll) \cup Range(s.beforeEach) \cup Range(s.afterEach)
    \cup Range(s.afterAll)

AllHooks(t) == UNION {HooksOf(t.suites[n]) : n \in SuiteNames(t)}

AllCases(t) == UNION {Range(t.suites[n].its) : n \in SuiteNames(t)}

\* -------------------------------------------------------- callback results
\* What a callback does when it is called: a hook returns or throws; a case
\* returns, throws an ExpectError (assertion failure) or throws anything else.
Faults(t) ==
  {<<h, "throw">> : h \in AllHooks(t)} \cup
  {<<c, k>> : c \in AllCases(t), k \in {"expect", "error"}}

RECURSIVE FaultSets(_, _)
FaultSets(t, k) ==
  IF k = 0 THEN {{}}
  ELSE LET P == FaultSets(t, k - 1)
       IN P \cup {S \cup {f} : S \in P, f \in Faults(t)}

\* The behaviours of the callbacks of tree t: at most MaxThrows of them throw,
\* and each callback has one behaviour.
Oracles(t) ==
  {S \in FaultSets(t, MaxThrows) :
     \A f, g \in S : f[1] = g[1] => f = g}

Outcome(o, id) ==
  IF \E f \in o : f[1] = id
  THEN (CHOOSE f \in o : f[1] = id)[2]
  ELSE "ok"

\* The state of the unit's source map file when a failure is resolved:
\* readable, missing (or not JSON), or JSON with undecodable mappings.
MapStates == {"ok", "missing", "corrupt"}

\* ---------------------------------------------------------------- options
\* A pattern is a literal; "" stands for no pattern. A path matches a literal
\* when the literal is one of the names the path is made of.
NoPattern == ""

NamePatterns == {NoPattern, "b", "B", "zzz"}

Matches(path, pattern) == pattern \in Range(path)

\* Mutant: the name pattern is never consulted.
testNameMatches_Always(opts, path) == TRUE

\* TestRunner.testNameMatches
testNameMatches(opts, path) ==
  IF opts.testNamePattern = NoPattern THEN TRUE
  ELSE Matches(path, opts.testNamePattern)

\* Mutant: the file pattern is never consulted.
testFileMatches_Always(opts, path) == TRUE

\* TestRunner.testFileMatches
testFileMatches(opts, path) ==
  IF opts.testFilePattern = NoPattern THEN TRUE
  ELSE Matches(path, opts.testFilePattern)

\* ------------------------------------------------------- the suite executor
\* The executor's state while runTest works on one unit:
\*   log       the calls made so far (hooks, cases, suites entered and left)
\*   thrown    the exception in flight: "none", "NoLogError" or "Error"
\*   success   TestRunner.success
\*   passed    the local variable `passed` of the running runTest call
\*   result    the value the last call returned
\*   err/info  entries printed to output.err / output.info
\*   mapReads  reads of info.mapFile
\*   tree      the suite objects of the unit as they are now (set by runRoot)
InitSt(success) ==
  [log |-> <<>>, thrown |-> "none", success |-> success, passed |-> TRUE,
   result |-> TRUE, err |-> 0, info |-> 0, mapReads |-> 0]

Ev(kind, id, suite, for, res) ==
  [kind |-> kind, id |-> id, suite |-> suite, for |-> for, res |-> res]

\* Mutant: the hook failure is reported but not rethrown.
runHook_Swallows(o, st, ev) ==
  IF Outcome(o, ev.id) = "ok"
  THEN [st EXCEPT !.log = Append(@, [ev EXCEPT !.res = "ok"])]
  ELSE [st EXCEPT !.log = Append(@, [ev EXCEPT !.res = "throw"]),
                  !.mapReads = @ + 1,
                  !.err = @ + 1]

\* TestRunner.runHook: the failure is reported and rethrown as NoLogError.
runHook(o, st, ev) ==
  IF Outcome(o, ev.id) = "ok"
  THEN [st EXCEPT !.log = Append(@, [ev EXCEPT !.res = "ok"])]
  ELSE [st EXCEPT !.log = Append(@, [ev EXCEPT !.res = "throw"]),
                  !.mapReads = @ + 1,
                  !.err = @ + 1,
                  !.thrown = "NoLogError"]

\* for (const hook of hooks) await this.runHook(hook, ...) inside the try:
\* a throw leaves the loop.
RECURSIVE runHooks(_, _, _, _, _, _, _)
runHooks(o, st, hooks, i, kind, suite, for) ==
  IF i > Len(hooks) \/ st.thrown # "none" THEN st
  ELSE runHooks(o, runHook(o, st, Ev(kind, hooks[i], suite, for, "")),
                hooks, i + 1, kind, suite, for)

\* TestRunner.runTestCase; testPath is [...parentList, testCase.name].
runTestCase(env, o, st, c, suite, testPath) ==
  IF ~testNameMatches(env.opts, testPath)
  THEN [st EXCEPT !.log = Append(@, Ev("skip", c, suite, c, "ok")),
                  !.info = @ + (IF env.opts.verbose THEN 1 ELSE 0),
                  !.result = TRUE]
  ELSE LET r == Outcome(o, c)
           s1 == [st EXCEPT !.log = Append(@, Ev("case", c, suite, c, r)),
                            !.info = @ + 1]
       IN CASE r = "ok" -> [s1 EXCEPT !.result = TRUE]
            [] r = "expect" ->
                 [s1 EXCEPT !.mapReads = @ + 1, !.err = @ + 1,
                            !.success = FALSE, !.result = FALSE]
            [] r = "error" /\ env.map # "corrupt" ->
                 [s1 EXCEPT !.mapReads = @ + 2, !.err = @ + 1,
                            !.success = FALSE, !.result = FALSE]
            [] r = "error" /\ env.map = "corrupt" ->
                 \* _getErrorStack decodes the mappings outside any try
                 [s1 EXCEPT !.mapReads = @ + 2, !.thrown = "Error"]

\* The argument of the recursive call: {...subTest, beforeEach: [...],
\* afterEach: [...]}.
Descend(test, subTest) ==
  [subTest EXCEPT !.beforeEach = test.beforeEach \o subTest.beforeEach,
                  !.afterEach = test.afterEach \o subTest.afterEach]

\* Mutant: the composed hook lists are assigned to the child suite itself.
suitesAfterDescend_InPlace(tree, test, subTest) ==
  [tree EXCEPT !.suites[subTest.name] = Descend(test, subTest)]

\* The suite objects after the argument of the recursive call is built: the
\* spread and the two array literals make new objects, subTest and the
\* arrays of test and subTest are only read.
suitesAfterDescend(tree, test, subTest) == tree

\* Mutant: the catch block marks the failure and throws the error on.
catchError_Rethrows(st) ==
  [st EXCEPT !.success = FALSE,
             !.err = IF st.thrown = "NoLogError" THEN @ ELSE @ + 1,
             !.result = FALSE]

\* Mutant: the catch block prints "Test failed due to an error" for every
\* error, a hook's NoLogError too.
catchError_ReportsEvery(st) ==
  [st EXCEPT !.success = FALSE,
             !.err = @ + 1,
             !.thrown = "none",
             !.result = FALSE]

\* The catch block of runTest.
catchError(st) ==
  [st EXCEPT !.success = FALSE,
             !.err = IF st.thrown = "NoLogError" THEN @ ELSE @ + 1,
             !.thrown = "none",
             !.result = FALSE]

\* Mutant: the child suites are run outside the try of the case loop.
subTestsLoopRuns_IgnoresThrow(test, st, i) == i <= Len(test.subTests)

\* The loop over test.subTests goes on while nothing was thrown in the try.
subTestsLoopRuns(test, st, i) ==
  i <= Len(test.subTests) /\ st.thrown = "none"

RECURSIVE runCases(_, _, _, _, _, _, _)
RECURSIVE runSubTests(_, _, _, _, _, _, _)
RECURSIVE runTest(_, _, _, _, _, _)

\* for (const testCase of test.its) { beforeEach...; runTestCase; afterEach }
runCases(env, o, t, test, path, st, i) ==
  IF i > Len(test.its) \/ st.thrown # "none" THEN st
  ELSE LET c == test.its[i]
           s1 == runHooks(o, st, test.beforeEach, 1, "beforeEach", test.name, c)
           s2 == IF s1.thrown = "none"
                 THEN runTestCase(env, o, s1, c, test.name, Append(path, c))
                 ELSE s1
           s3 == IF s2.thrown = "none"
                 THEN [s2 EXCEPT !.passed = @ /\ s2.result]
                 ELSE s2
           s4 == runHooks(o, s3, test.afterEach, 1, "afterEach", test.name, c)
       IN runCases(env, o, t, test, path, s4, i + 1)

\* for (const subTest of test.subTests) { passed &&= await this.runTest(...) }
runSubTests(env, o, t, test, path, st, i) ==
  IF ~subTestsLoopRuns(test, st, i) THEN st
  ELSE LET sub == st.tree.suites[test.subTests[i]]
           s1 == [st EXCEPT !.tree = suitesAfterDescend(@, test, sub)]
           r == runTest(env, o, t, Descend(test, sub), path, s1)
       IN runSubTests(env, o, t, test, path,
                      [r EXCEPT !.passed = st.passed /\ r.result], i + 1)

\* Mutant: a suite without cases returns true at once.
runTest_SkipsEmptySuite(env, o, t, test, parentList, st) ==
  LET path == Append(parentList, test.name)
      s0 == [st EXCEPT !.passed = TRUE,
                       !.log = Append(@, Ev("enter", test.name, test.name, "", ""))]
      s1 == runHooks(o, s0, test.beforeAll, 1, "beforeAll", test.name, "")
      s2 == runCases(env, o, t, test, path, s1, 1)
      s3 == runSubTests(env, o, t, test, path, s2, 1)
      s4 == runHooks(o, s3, test.afterAll, 1, "afterAll", test.name, "")
      s5 == IF test.its = <<>> THEN [s0 EXCEPT !.result = TRUE]
            ELSE IF s4.thrown = "none"
            THEN [s4 EXCEPT !.result = s4.passed]
            ELSE catchError(s4)
  IN [s5 EXCEPT !.log = Append(@, Ev("exit", test.name, test.name, "",
                                     IF s5.result THEN "true" ELSE "false"))]

\* Mutant: the child suites are run before the suite's own cases.
runTest_SubTestsFirst(env, o, t, test, parentList, st) ==
  LET path == Append(parentList, test.name)
      s0 == [st EXCEPT !.passed = TRUE,
                       !.log = Append(@, Ev("enter", test.name, test.name, "", ""))]
      s1 == runHooks(o, s0, test.beforeAll, 1, "beforeAll", test.name, "")
      s2 == runSubTests(env, o, t, test, path, s1, 1)
      s3 == runCases(env, o, t, test, path, s2, 1)
      s4 == runHooks(o, s3, test.afterAll, 1, "afterAll", test.name, "")
      s5 == IF s4.thrown = "none"
            THEN [s4 EXCEPT !.result = s4.passed]
            ELSE catchError(s4)
  IN [s5 EXCEPT !.log = Append(@, Ev("exit", test.name, test.name, "",
                                     IF s5.result THEN "true" ELSE "false"))]

\* TestRunner.runTest
runTest(env, o, t, test, parentList, st) ==
  LET path == Append(parentList, test.name)
      s0 == [st EXCEPT !.passed = TRUE,
                       !.log = Append(@, Ev("enter", test.name, test.name, "", ""))]
      s1 == runHooks(o, s0, test.beforeAll, 1, "beforeAll", test.name, "")
      s2 == runCases(env, o, t, test, path, s1, 1)
      s3 == runSubTests(env, o, t, test, path, s2, 1)
      s4 == runHooks(o, s3, test.afterAll, 1, "afterAll", test.name, "")
      s5 == IF s4.thrown = "none"
            THEN [s4 EXCEPT !.result = s4.passed]
            ELSE catchError(s4)
  IN [s5 EXCEPT !.log = Append(@, Ev("exit", test.name, test.name, "",
                                     IF s5.result THEN "true" ELSE "false"))]

\* Mutant: every unit starts with the success flag set again.
runRoot_FreshFlag(env, o, t, success) ==
  runTest(env, o, t, t.suites[t.root], <<>>, [tree |-> t] @@ InitSt(TRUE))

\* runTest(test, info, undefined, outputs) as nextUnit calls it on the root.
runRoot(env, o, t, success) ==
  runTest(env, o, t, t.suites[t.root], <<>>, [tree |-> t] @@ InitSt(success))

\* ------------------------------------------------------- the orchestrator
Runners == 1..NumRunners

Units == 1..NumUnits

\* The units as the directory walk of main pushes them to testFiles.
DiscoveredUnits == [u \in Units |-> u]

\* testUnit.testFile as the names its path is made of.
UnitFile(u) == <<IF u % 2 = 1 THEN "ui" ELSE "core", ToString(u)>>

\* The test tree the bundle of unit u exports.
UnitTree(u) == ((u - 1) % Len(Trees)) + 1

FilePatterns == {NoPattern, "ui"}

\* Mutant: the rejection of a failed delete is not caught: nextUnit rejects.
nextUnitThrow_DeleteEscapes(where) ==
  IF where = "delete" THEN "rejected" ELSE "catch"

\* Where nextUnit goes on when something is thrown inside its try: a build
\* error, a rejected import, a rejected delete (handed on by
\* .catch(p.reject)) and p.reject("Not a test") all make the awaited
\* expression throw into the catch block.
nextUnitThrow(where) == "catch"

\* Mutant: the last unit is read but not removed from the queue.
PopUnit_Peek(q) == [unit |-> q[Len(q)], rest |-> q]

\* testFileQueue.pop(): the unit taken and the queue left.
PopUnit(q) == [unit |-> q[Len(q)], rest |-> SubSeq(q, 1, Len(q) - 1)]

\* outputFile and mapFile of a unit.
BundleFile(u) == <<u, "bundled.js">>

MapFile(u) == <<u, "bundled.js.map">>

\* What nextUnit has to know of a finished runTest call.
Summary(st) ==
  [passed |-> st.result,
   success |-> st.success,
   failedCase |-> \E i \in DOMAIN st.log :
                    st.log[i].kind = "case" /\ st.log[i].res # "ok",
   hookThrew |-> \E i \in DOMAIN st.log :
                   /\ st.log[i].kind \in {"beforeAll", "beforeEach", "afterEach", "afterAll"}
                   /\ st.log[i].res = "throw"]

\* The name patterns the runners are started with.
RunnerNamePatterns == {NoPattern}

\* The outcomes runTest can have: for each tree, name pattern and value of
\* this.success before the call, the summaries over all behaviours of the
\* tree's callbacks and all states of the map file.
SuiteResults ==
  UNION {
    {[tree |-> t, pattern |-> n, before |-> s,
      res |-> Summary(runRoot([opts |-> [verbose |-> FALSE, testNamePattern |-> n,
                                         testFilePattern |-> NoPattern],
                               map |-> m], o, Trees[t], s))] :
       n \in RunnerNamePatterns, m \in MapStates, s \in BOOLEAN,
       o \in Oracles(Trees[t])} :
    t \in TreeIds}

\* Mutant: the catch block leaves the success flag alone.
nextUnitCatch_KeepsFlag(success) == success

\* The catch block of nextUnit: this.success = false.
nextUnitCatch(success) == FALSE

\* What a bundle can export as its default: a falsy value, something that is
\* no object, or an object with or without a truthy name and a line.
ModuleDefaults ==
  {d \in [truthy : BOOLEAN, isObject : BOOLEAN, hasName : BOOLEAN,
          hasLine : BOOLEAN] :
     (~d.truthy \/ ~d.isObject) => (~d.hasName /\ ~d.hasLine)}

\* Mutant: the line of the export is not looked at.
IsTest_NameOnly(t) == t.truthy /\ t.isObject /\ t.hasName

\* _isTest: t && typeof t === "object" && t.name && t.line !== undefined
IsTest(t) == t.truthy /\ t.isObject /\ t.hasName /\ t.hasLine

\* Mutant: nextUnit returns false after a unit that could not be started.
nextUnitResult_FalseOnError(failed) == ~failed

\* nextUnit returns true after a unit, whether the catch block ran or not.
nextUnitResult(failed) == TRUE

\* start: while (await this.nextUnit()) {}
StartLoop(result) == IF result THEN "idle" ELSE "stopped"

\* What happened to a unit so far (history, for the claims).
NoHistory ==
  [pops |-> 0, handled |-> 0, built |-> "no", load |-> "none",
   failedCase |-> FALSE, hookThrew |-> FALSE, delFailed |-> FALSE,
   startFailed |-> FALSE, summary |-> "none"]

\* ------------------------------------------- JavaScript's 32-bit operators
\* The operands of <<, >>>, & and | are 32-bit integers: here the signed
\* values -2^31 .. 2^31 - 1 in two's complement.
MaxInt32 == 2147483647

MinInt32 == -MaxInt32 - 1

\* ToInt32(-x) for a 32-bit x: 2^31 wraps to -2^31.
NegToInt32(x) == IF x = MinInt32 THEN MinInt32 ELSE -x

\* ~x
Not32(x) == IF x >= 0 THEN -x - 1 ELSE -(x + 1)

\* x & y for y >= 0, from the lowest bit up (x \div 2 keeps the sign bits of
\* a negative x coming in from the left).
RECURSIVE AndLow(_, _)
AndLow(x, y) ==
  IF y = 0 THEN 0 ELSE (x % 2) * (y % 2) + 2 * AndLow(x \div 2, y \div 2)

\* x | y for x >= 0 and y >= 0.
RECURSIVE OrLow(_, _)
OrLow(x, y) ==
  IF x = 0 THEN y
  ELSE IF y = 0 THEN x
  ELSE (IF (x % 2) + (y % 2) > 0 THEN 1 ELSE 0) + 2 * OrLow(x \div 2, y \div 2)

\* x & y
And32(x, y) ==
  IF y >= 0 THEN AndLow(x, y)
  ELSE IF x >= 0 THEN AndLow(y, x)
  ELSE Not32(OrLow(Not32(x), Not32(y)))

\* x | y
Or32(x, y) ==
  IF x >= 0 /\ y >= 0 THEN OrLow(x, y)
  ELSE IF x >= 0 THEN Not32(AndLow(Not32(x), Not32(y)))
  ELSE IF y >= 0 THEN Not32(AndLow(Not32(y), Not32(x)))
  ELSE Not32(AndLow(Not32(x), Not32(y)))

\* x << 1: bit 31 is lost and bit 30 becomes the sign.
Shl1(x) ==
  LET low == x % 2^30
  IN IF (x \div 2^30) % 2 = 1 THEN (2 * low - MaxInt32) - 1 ELSE 2 * low

\* x >>> 1: a zero comes in from the left.
Ushr1(x) == IF x >= 0 THEN x \div 2 ELSE ((x \div 2) + 2^30) + 2^30

RECURSIVE ShlBy(_, _)
ShlBy(x, n) == IF n = 0 THEN x ELSE ShlBy(Shl1(x), n - 1)

RECURSIVE UshrBy(_, _)
UshrBy(x, n) == IF n = 0 THEN x ELSE UshrBy(Ushr1(x), n - 1)

\* x << s: the shift count is taken modulo 32.
Shl32(x, s) == ShlBy(x, s % 32)

\* x >>> s for a count of 1..31 (modulo 32); the result is not negative.
Ushr32(x, s) == UshrBy(x, s % 32)

\* ------------------------------------------------------------- Base64VLQ
\* Texts are sequences of characters. The string the constructor splits into
\* the two tables: 65 characters, the last of them "=".
Alphabet ==
  <<"A", "B", "C", "D", "E", "F", "G", "H", "I", "J", "K", "L", "M",
    "N", "O", "P", "Q", "R", "S", "T", "U", "V", "W", "X", "Y", "Z",
    "a", "b", "c", "d", "e", "f", "g", "h", "i", "j", "k", "l", "m",
    "n", "o", "p", "q", "r", "s", "t", "u", "v", "w", "x", "y", "z",
    "0", "1", "2", "3", "4", "5", "6", "7", "8", "9", "+", "/", "=">>

\* this.char_to_integer[char] is not undefined
InTable(char) == \E i \in DOMAIN Alphabet : Alphabet[i] = char

char_to_integer(char) == (CHOOSE i \in DOMAIN Alphabet : Alphabet[i] = char) - 1

integer_to_char(i) == Alphabet[i + 1]

\* Mutant: the value is negated without the case of -2^31.
negated_Plain(value) == -value

\* value === 0 ? -0x80000000 : -value
negated(value) == IF value = 0 THEN MinInt32 ELSE -value

\* The loop of Base64VLQ.decode from character i on. The call either throws
\* ("Invalid character") or returns the numbers decoded.
RECURSIVE decodeFrom(_, _, _, _, _)
decodeFrom(string, i, shift, value, result) ==
  IF i > Len(string) THEN [threw |-> FALSE, value |-> result]
  ELSE IF ~InTable(string[i]) THEN [threw |-> TRUE, value |-> <<>>]
  ELSE LET integer == char_to_integer(string[i])
           has_continuation_bit == And32(integer, 32)
           v1 == value + Shl32(And32(integer, 31), shift)
       IN IF has_continuation_bit # 0
          THEN decodeFrom(string, i + 1, shift + 5, v1, result)
          ELSE LET should_negate == And32(v1, 1)
                   v2 == Ushr32(v1, 1)
               IN decodeFrom(string, i + 1, 0, 0,
                             Append(result, IF should_negate # 0
                                            THEN negated(v2) ELSE v2))

\* Base64VLQ.decode
decode(string) == decodeFrom(string, 1, 0, 0, <<>>)

\* The do-while loop of encode_integer.
RECURSIVE encodeLoop(_, _)
encodeLoop(num, result) ==
  LET clamped == And32(num, 31)
      n1 == Ushr32(num, 5)
      r1 == Append(result, integer_to_char(IF n1 > 0 THEN Or32(clamped, 32)
                                                      ELSE clamped))
  IN IF n1 > 0 THEN encodeLoop(n1, r1) ELSE r1

\* Base64VLQ.encode_integer
encode_integer(num) ==
  encodeLoop(IF num < 0 THEN Or32(Shl32(NegToInt32(num), 1), 1) ELSE Shl32(num, 1),
             <<>>)

\* Base64VLQ.encode of an array of numbers.
RECURSIVE encode(_)
encode(value) ==
  IF value = <<>> THEN <<>>
  ELSE encode_integer(Head(value)) \o encode(Tail(value))

\* -------------------------------------------------------- SourceMapReader
\* String.prototype.split on a one-character separator: the pieces between
\* the separators, an empty text giving one empty piece.
RECURSIVE splitFrom(_, _, _, _)
splitFrom(text, i, sep, piece) ==
  IF i > Len(text) THEN <<piece>>
  ELSE IF text[i] = sep
       THEN <<piece>> \o splitFrom(text, i + 1, sep, <<>>)
       ELSE splitFrom(text, i + 1, sep, Append(piece, text[i]))

split(text, sep) == splitFrom(text, 1, sep, <<>>)

\* this.map.mappings.split(";").map((line) => line.split(","))
Vlqs(map) ==
  LET lines == split(map.mappings, ";")
  IN [i \in DOMAIN lines |-> split(lines[i], ",")]

\* this.map.sources[i], i counted from 0.
SourceAt(map, i) ==
  IF i >= 0 /\ i < Len(map.sources) THEN map.sources[i + 1] ELSE "undefined"

\* Mutant: the lines are searched whatever the requested line is.
lineOutOfRange_Never(vlqs, outLine) == FALSE

\* if (vlqs.length <= outLine) return null
lineOutOfRange(vlqs, outLine) == Len(vlqs) <= outLine

\* Mutant: the interval is closed on the left.
inInterval_Closed(prev, outColumn, cur) == prev <= outColumn /\ outColumn <= cur

\* prevState[0] < outColumn && outColumn <= state[0]
inInterval(prev, outColumn, cur) == prev < outColumn /\ outColumn <= cur

\* Mutant: the whole state starts anew on every line.
lineStart_ResetAll(state) == <<0, 0, 0, 0, 0>>

\* Mutant: the generated column runs on from line to line.
lineStart_NoReset(state) == state

\* state[0] = 0 at the start of every line.
lineStart(state) == [state EXCEPT ![1] = 0]

\* What a call of getOriginalPosition comes to; decodes counts the calls of
\* converter.decode it made.
ResultNull(decodes) == [kind |-> "null", decodes |-> decodes]

ResultThrow(decodes) == [kind |-> "throw", decodes |-> decodes]

ResultPosition(file, line, column, decodes) ==
  [kind |-> "position", file |-> file, line |-> line, column |-> column,
   decodes |-> decodes]

\* The loop over the segments of one line, from segment j on. state is
\* state[0..4] of the code as a tuple; a segment has 1, 4 or 5 fields.
RECURSIVE segmentsLoop(_, _, _, _, _, _, _)
segmentsLoop(map, line, j, state, onLine, outColumn, decodes) ==
  IF j > Len(line) THEN [kind |-> "next", state |-> state, decodes |-> decodes]
  ELSE IF line[j] = <<>>
       THEN segmentsLoop(map, line, j + 1, state, onLine, outColumn, decodes)
  ELSE LET d == decode(line[j])
           segmentCords == d.value
           prevState == state
           s1 == [state EXCEPT ![1] = @ + segmentCords[1]]
           s2 == [s1 EXCEPT ![2] = @ + segmentCords[2],
                            ![3] = @ + segmentCords[3],
                            ![4] = @ + segmentCords[4],
                            ![5] = IF Len(segmentCords) >= 5
                                   THEN @ + segmentCords[5] ELSE @]
       IN IF d.threw THEN ResultThrow(decodes + 1)
          ELSE IF Len(segmentCords) > 1
               THEN IF onLine /\ inInterval(prevState[1], outColumn, s2[1])
                    THEN ResultPosition(SourceAt(map, s2[2]), s2[3] + 1,
                                        outColumn + s2[4] - s2[1] + 1, decodes + 1)
                    ELSE segmentsLoop(map, line, j + 1, s2, onLine, outColumn,
                                      decodes + 1)
               ELSE segmentsLoop(map, line, j + 1, s1, onLine, outColumn,
                                 decodes + 1)

\* The loop over the lines, from line index (counted from 0) on.
RECURSIVE linesLoop(_, _, _, _, _, _, _)
linesLoop(map, vlqs, index, state, outLine, outColumn, decodes) ==
  IF index >= Len(vlqs) THEN ResultNull(decodes)
  ELSE LET r == segmentsLoop(map, vlqs[index + 1], 1, lineStart(state),
                             index = outLine, outColumn, decodes)
       IN IF r.kind # "next" THEN r
          ELSE IF index = outLine
               THEN ResultPosition(SourceAt(map, r.state[2]), r.state[3] + 1, 1,
                                   r.decodes)
               ELSE linesLoop(map, vlqs, index + 1, r.state, outLine, outColumn,
                              r.decodes)

\* SourceMapReader.getOriginalPosition(outLine, outColumn), both 1-based.
getOriginalPosition(map, outLine, outColumn) ==
  LET vlqs == Vlqs(map)
  IN IF lineOutOfRange(vlqs, outLine - 1) THEN ResultNull(0)
     ELSE linesLoop(map, vlqs, 0, <<0, 0, 0, 0, 0>>, outLine - 1, outColumn - 1, 0)

\* ------------------------------------------------- the calls of the codec
\* The longest array of numbers encoded, the longest text decoded, the most
\* lines a map has and the largest column asked for.
MaxSeqLen == 2

MaxTextLen == 3

MaxLines == 3

MaxColumn == 12

SeqsUpTo(S, n) == UNION {[1..k -> S] : k \in 0..n}

\* The numbers encoded one by one: zero, the ends of the 32-bit range, and
\* what lies around every power of two (every length of the encoding, with
\* and without carries into the next group of five bits).
IntSamples ==
  {0, MaxInt32, -MaxInt32, MinInt32}
    \cup UNION {{2^k, -(2^k), 2^k - 1, 1 - 2^k, 2^k + 1, -(2^k) - 1} : k \in 0..30}

\* The numbers the encoded arrays are made of.
ArrayElements == {0, 1, -1, 16, -16, 1000, MaxInt32, MinInt32}

\* The characters the decoded texts are made of: value symbols (0, 1, 32, 63
\* in the table), "=", and characters that are not in the table.
TextChars == {"A", "B", "g", "/", "=", "!", "-"}

\* A segment of a mappings line: its fields, or a text that does not decode.
Seg(fields) == [ok |-> TRUE, fields |-> fields]

BadSeg == [ok |-> FALSE, fields |-> <<>>]

\* The lines the maps are made of.
LineSamples ==
  {<<>>,
   <<Seg(<<10, 0, 4, 3>>)>>,
   <<Seg(<<4>>), Seg(<<3, 1, -2, 5>>)>>,
   <<Seg(<<0, 0, 1, 0>>), Seg(<<6, 0, 1, -1, 7>>), Seg(<<2, -1, 0, 2>>)>>,
   <<Seg(<<2, 0, 0, 1>>), BadSeg>>}

MapSources == <<"a.ts", "b.ts">>

SegText(seg) == IF seg.ok THEN encode(seg.fields) ELSE <<"!">>

RECURSIVE join(_, _)
join(texts, sep) ==
  IF texts = <<>> THEN <<>>
  ELSE IF Len(texts) = 1 THEN texts[1]
  ELSE texts[1] \o <<sep>> \o join(Tail(texts), sep)

\* The mappings text of a map with the given lines.
Mappings(lines) ==
  join([i \in DOMAIN lines |->
          join([j \in DOMAIN lines[i] |-> SegText(lines[i][j])], ",")], ";")

Call(op, isNumber, numbers, text, lines, line, column) ==
  [op |-> op, isNumber |-> isNumber, numbers |-> numbers, text |-> text,
   lines |-> lines, line |-> line, column |-> column]

\* encode(n) then decode, encode(array) then decode, decode(text), and
\* getOriginalPosition(line, column) on a map.
CodecCalls ==
  {Call("encode", TRUE, <<n>>, <<>>, <<>>, 0, 0) : n \in IntSamples}
    \cup {Call("encode", FALSE, a, <<>>, <<>>, 0, 0) :
            a \in SeqsUpTo(ArrayElements, MaxSeqLen)}
    \cup {Call("decode", FALSE, <<>>, t, <<>>, 0, 0) :
            t \in SeqsUpTo(TextChars, MaxTextLen) \ {<<>>}}
    \cup {Call("resolve", FALSE, <<>>, <<>>, ls, l, c) :
            ls \in SeqsUpTo(LineSamples, MaxLines) \ {<<>>},
            l \in 1..(MaxLines + 1), c \in 1..MaxColumn}

NoResult == [kind |-> "none"]

\* ------------------------------------------------------- output buffers
\* A line of output: the unit it is about and what it says ("SKIPPED",
\* "PASSED", "FAILED": the summary lines; "info", "error": what runTest
\* printed for the unit, taken as a whole; "failedToStart": the lines of the
\* catch block of nextUnit).
Line(u, kind) == [unit |-> u, kind |-> kind]

\* OutputBuffer.print / println: the text is kept in the buffer.
println(buffer, line) == Append(buffer, line)

\* OutputBuffer.pipe: the content is appended to the target buffer.
pipe(buffer, target) == target \o buffer

\* OutputBuffer.flush: the buffered content is committed to standard output
\* as one block, once, and the buffer is empty; an empty buffer writes
\* nothing. The value is standard output after the call.
flush(buffer, out) == IF buffer = <<>> THEN out ELSE out \cup {buffer}

\* The buffers of a runner: mainOutput, and the two buffers made for the
\* unit it is working on (empty while there is none).
NoBuffers == [main |-> <<>>, info |-> <<>>, err |-> <<>>]

\* errTestOutput = new OutputBuffer(); infoTestOutput = new OutputBuffer()
newUnitBuffers(bufs) == [bufs EXCEPT !.info = <<>>, !.err = <<>>]

\* Mutant: runTest is handed the main output for its info lines.
runTestOutputs_InfoToMain(bufs, info, err) ==
  [bufs EXCEPT !.main = @ \o info, !.err = @ \o err]

\* What runTest prints goes to the outputs it is handed:
\* {err: errTestOutput, info: infoTestOutput}.
runTestOutputs(bufs, info, err) ==
  [bufs EXCEPT !.info = @ \o info, !.err = @ \o err]

\* mainOutput.print(PASSED or FAILED line), then in verbose mode
\* infoTestOutput.pipe(this.mainOutput).
summarise(bufs, verbose, u, passed) ==
  LET main == println(bufs.main, Line(u, IF passed THEN "PASSED" ELSE "FAILED"))
  IN [bufs EXCEPT !.main = IF verbose THEN pipe(bufs.info, main) ELSE main]

\* ------------------------------------------------------------------ state
VARIABLES
  sTree,     \* SuiteSpec: the tree (index into Trees) handed to runTest
  sOpts,     \* SuiteSpec: the runner's options
  sMap,      \* SuiteSpec: the state of the unit's map file
  sPc,       \* SuiteSpec: "ready" before the call of runTest, "done" after
  sSt,       \* SuiteSpec: the executor's state
  testFileQueue,  \* the array all runners were constructed with
  options,        \* TestRunner.options (the same for every runner)
  pc,             \* where each runner's start/nextUnit stands
  unit,           \* testUnit of each runner's running nextUnit call (0: none)
  isTest,         \* _isTest(module.default) of each runner's loaded module
  passed,         \* `passed` of each runner's running nextUnit call
  success,        \* TestRunner.success of each runner
  files,          \* the artifact files that exist
  hist,           \* what happened to each unit so far
  suiteResults,   \* SuiteResults, evaluated once when the run starts
  buffers,        \* each runner's mainOutput and the buffers of its unit
  stdout,         \* the blocks flushed to standard output so far
  cCall,     \* CodecSpec: the call made
  cPc,       \* CodecSpec: the step the call is at
  cText,     \* CodecSpec: the text handed to decode
  cOut       \* CodecSpec: what the call returned

suiteVars == <<sTree, sOpts, sMap, sPc, sSt>>

runnerVars ==
  <<testFileQueue, options, pc, unit, isTest, passed, success, files, hist,
    suiteResults, buffers, stdout>>

codecVars == <<cCall, cPc, cText, cOut>>

vars == <<suiteVars, runnerVars, codecVars>>

Opts(v, n, f) == [verbose |-> v, testNamePattern |-> n, testFilePattern |-> f]

SuiteInit ==
  /\ sTree \in TreeIds
  /\ sOpts \in {Opts(v, n, NoPattern) : v \in BOOLEAN, n \in NamePatterns}
  /\ sMap \in MapStates
  /\ sPc = "ready"
  /\ sSt = InitSt(TRUE)
  /\ testFileQueue = <<>>
  /\ options = Opts(FALSE, NoPattern, NoPattern)
  /\ pc = [r \in Runners |-> "stopped"]
  /\ unit = [r \in Runners |-> 0]
  /\ isTest = [r \in Runners |-> FALSE]
  /\ passed = [r \in Runners |-> TRUE]
  /\ success = [r \in Runners |-> TRUE]
  /\ files = {}
  /\ hist = [u \in Units |-> NoHistory]
  /\ suiteResults = {}
  /\ buffers = [r \in Runners |-> NoBuffers]
  /\ stdout = {}
  /\ cCall = Call("none", FALSE, <<>>, <<>>, <<>>, 0, 0)
  /\ cPc = "done"
  /\ cText = <<>>
  /\ cOut = NoResult

\* One whole call of runTest on the root suite, for some behaviour of the
\* tree's callbacks.
CallRunTest ==
  /\ sPc = "ready"
  /\ \E o \in Oracles(Trees[sTree]) :
       sSt' = runRoot([opts |-> sOpts, map |-> sMap], o, Trees[sTree], TRUE)
  /\ sPc' = "done"
  /\ UNCHANGED <<sTree, sOpts, sMap>>
  /\ UNCHANGED <<runnerVars, codecVars>>

SuiteNext == CallRunTest

SuiteSpec == SuiteInit /\ [][SuiteNext]_vars


\* ---------------------------------------------------------------- CodecSpec
\* The Base64VLQ converter and the SourceMapReader, called on their own.
CodecInit ==
  /\ cCall \in CodecCalls
  /\ cPc = cCall.op
  /\ cText = cCall.text
  /\ cOut = NoResult
  /\ sTree = 1
  /\ sOpts = Opts(FALSE, NoPattern, NoPattern)
  /\ sMap = "ok"
  /\ sPc = "done"
  /\ sSt = InitSt(TRUE)
  /\ testFileQueue = <<>>
  /\ options = Opts(FALSE, NoPattern, NoPattern)
  /\ pc = [r \in Runners |-> "stopped"]
  /\ unit = [r \in Runners |-> 0]
  /\ isTest = [r \in Runners |-> FALSE]
  /\ passed = [r \in Runners |-> TRUE]
  /\ success = [r \in Runners |-> TRUE]
  /\ files = {}
  /\ hist = [u \in Units |-> NoHistory]
  /\ suiteResults = {}
  /\ buffers = [r \in Runners |-> NoBuffers]
  /\ stdout = {}

\* converter.encode(value): a number goes to encode_integer, an array is
\* encoded number by number.
Encode ==
  /\ cPc = "encode"
  /\ cText' = IF cCall.isNumber THEN encode_integer(cCall.numbers[1])
              ELSE encode(cCall.numbers)
  /\ cPc' = "decode"
  /\ UNCHANGED <<cCall, cOut>>
  /\ UNCHANGED <<suiteVars, runnerVars>>

\* converter.decode(text)
Decode ==
  /\ cPc = "decode"
  /\ cOut' = decode(cText)
  /\ cPc' = "done"
  /\ UNCHANGED <<cCall, cText>>
  /\ UNCHANGED <<suiteVars, runnerVars>>

\* new SourceMapReader(map).getOriginalPosition(line, column)
GetOriginalPosition ==
  /\ cPc = "resolve"
  /\ cOut' = getOriginalPosition([mappings |-> Mappings(cCall.lines),
                                  sources |-> MapSources],
                                 cCall.line, cCall.column)
  /\ cPc' = "done"
  /\ UNCHANGED <<cCall, cText>>
  /\ UNCHANGED <<suiteVars, runnerVars>>

CodecNext == Encode \/ Decode \/ GetOriginalPosition

CodecSpec == CodecInit /\ [][CodecNext]_vars


\* --------------------------------------------------------------------- Spec
\* main: the runners are constructed on the same testFiles array with the same
\* options, and started together.
Init ==
  /\ suiteResults = SuiteResults
  /\ testFileQueue = DiscoveredUnits
  /\ options \in {Opts(FALSE, NoPattern, f) : f \in FilePatterns}
  /\ pc = [r \in Runners |-> "idle"]
  /\ unit = [r \in Runners |-> 0]
  /\ isTest = [r \in Runners |-> FALSE]
  /\ passed = [r \in Runners |-> TRUE]
  /\ success = [r \in Runners |-> TRUE]
  /\ files = {}
  /\ hist = [u \in Units |-> NoHistory]
  /\ buffers = [r \in Runners |-> NoBuffers]
  /\ stdout = {}
  /\ sTree = 1
  /\ sOpts = Opts(FALSE, NoPattern, NoPattern)
  /\ sMap = "ok"
  /\ sPc = "done"
  /\ sSt = InitSt(TRUE)
  /\ cCall = Call("none", FALSE, <<>>, <<>>, <<>>, 0, 0)
  /\ cPc = "done"
  /\ cText = <<>>
  /\ cOut = NoResult

Taken(u) == [hist EXCEPT ![u].pops = @ + 1]

\* nextUnit on an empty queue returns false and the start loop ends.
NextUnitEmpty(r) ==
  /\ pc[r] = "idle"
  /\ testFileQueue = <<>>
  /\ pc' = [pc EXCEPT ![r] = "stopped"]
  /\ UNCHANGED <<testFileQueue, options, suiteResults, unit, isTest, passed, success, files, hist>>
  /\ UNCHANGED <<buffers, stdout>>

\* nextUnit pops a unit whose file does not match the file pattern: it
\* returns true at once (after the finally's flush); the SKIPPED line is
\* printed in verbose mode only.
NextUnitSkipped(r) ==
  /\ pc[r] = "idle"
  /\ testFileQueue # <<>>
  /\ LET p == PopUnit(testFileQueue)
     IN /\ ~testFileMatches(options, UnitFile(p.unit))
        /\ testFileQueue' = p.rest
        /\ hist' = [Taken(p.unit) EXCEPT
                      ![p.unit].handled = @ + 1,
                      ![p.unit].summary = IF options.verbose THEN "SKIPPED" ELSE @]
        /\ stdout' = flush(IF options.verbose
                           THEN println(buffers[r].main, Line(p.unit, "SKIPPED"))
                           ELSE buffers[r].main, stdout)
        /\ buffers' = buffers
  /\ UNCHANGED <<options, suiteResults, pc, unit, isTest, passed, success, files>>

\* nextUnit pops a unit and builds it: _buildFile runs the builder
\* synchronously; on success the bundle and its map exist, on failure the
\* await throws into the catch block.
NextUnitBuild(r) ==
  /\ pc[r] = "idle"
  /\ testFileQueue # <<>>
  /\ LET p == PopUnit(testFileQueue)
     IN /\ testFileMatches(options, UnitFile(p.unit))
        /\ testFileQueue' = p.rest
        /\ unit' = [unit EXCEPT ![r] = p.unit]
        /\ \E built \in BOOLEAN :
             IF built
             THEN /\ files' = files \cup {BundleFile(p.unit), MapFile(p.unit)}
                  /\ hist' = [Taken(p.unit) EXCEPT ![p.unit].built = "ok"]
                  /\ pc' = [pc EXCEPT ![r] = "built"]
             ELSE /\ files' = files
                  /\ hist' = [Taken(p.unit) EXCEPT ![p.unit].built = "failed"]
                  /\ pc' = [pc EXCEPT ![r] = nextUnitThrow("build")]
  /\ UNCHANGED <<options, suiteResults, isTest, passed, success, buffers, stdout>>

\* import(importPath): the promise rejects, or the module's default export
\* passes _isTest, or it does not. The history keeps whether the export had
\* the shape of a test tree (an object with a name and a line).
Import(r) ==
  /\ pc[r] = "built"
  /\ \/ /\ hist' = [hist EXCEPT ![unit[r]].load = "rejected"]
        /\ isTest' = isTest
        /\ buffers' = buffers
        /\ pc' = [pc EXCEPT ![r] = nextUnitThrow("import")]
     \/ \E d \in ModuleDefaults :
          /\ hist' = [hist EXCEPT ![unit[r]].load =
                        IF d.truthy /\ d.isObject /\ d.hasName /\ d.hasLine
                        THEN "test" ELSE "notTest"]
          /\ isTest' = [isTest EXCEPT ![r] = IsTest(d)]
          /\ buffers' = IF IsTest(d)
                        THEN [buffers EXCEPT ![r] = newUnitBuffers(@)]
                        ELSE buffers
          /\ pc' = [pc EXCEPT ![r] = IF IsTest(d) THEN "loaded" ELSE "delBundle"]
  /\ UNCHANGED <<testFileQueue, options, suiteResults, unit, passed, success, files, stdout>>

\* passed = await this.runTest(test, info, undefined, outputs)
RunSuite(r) ==
  /\ pc[r] = "loaded"
  /\ \E x \in suiteResults :
       /\ x.tree = UnitTree(unit[r])
       /\ x.pattern = options.testNamePattern
       /\ x.before = success[r]
       /\ passed' = [passed EXCEPT ![r] = x.res.passed]
       /\ success' = [success EXCEPT ![r] = x.res.success]
       /\ hist' = [hist EXCEPT ![unit[r]].failedCase = x.res.failedCase,
                               ![unit[r]].hookThrew = x.res.hookThrew]
       /\ buffers' = [buffers EXCEPT ![r] =
                        runTestOutputs(@, <<Line(unit[r], "info")>>,
                                       IF x.res.failedCase \/ x.res.hookThrew
                                       THEN <<Line(unit[r], "error")>> ELSE <<>>)]
  /\ pc' = [pc EXCEPT ![r] = "delBundle"]
  /\ UNCHANGED <<testFileQueue, options, suiteResults, unit, isTest, files, stdout>>

\* await _deleteFile(outputFile): a failed delete rejects, and the rejection
\* reaches the catch block of nextUnit through .catch(p.reject).
DeleteBundle(r) ==
  /\ pc[r] = "delBundle"
  /\ \E deleted \in BOOLEAN :
       IF deleted
       THEN /\ files' = files \ {BundleFile(unit[r])}
            /\ pc' = [pc EXCEPT ![r] = "delMap"]
            /\ hist' = hist
       ELSE /\ files' = files
            /\ pc' = [pc EXCEPT ![r] = nextUnitThrow("delete")]
            /\ hist' = [hist EXCEPT ![unit[r]].delFailed = TRUE]
  /\ UNCHANGED <<testFileQueue, options, suiteResults, unit, isTest, passed, success>>
  /\ UNCHANGED <<buffers, stdout>>

\* await _deleteFile(mapFile), and what follows it: for a test the summary
\* line and p.resolve(), for anything else p.reject("Not a test").
DeleteMap(r) ==
  /\ pc[r] = "delMap"
  /\ \E deleted \in BOOLEAN :
       IF deleted
       THEN /\ files' = files \ {MapFile(unit[r])}
            /\ IF isTest[r]
               THEN /\ hist' = [hist EXCEPT ![unit[r]].summary =
                                  IF passed[r] THEN "PASSED" ELSE "FAILED"]
                    /\ buffers' = [buffers EXCEPT ![r] =
                                     summarise(@, options.verbose, unit[r], passed[r])]
                    /\ pc' = [pc EXCEPT ![r] = "finish"]
               ELSE /\ hist' = hist
                    /\ buffers' = buffers
                    /\ pc' = [pc EXCEPT ![r] = nextUnitThrow("notTest")]
       ELSE /\ files' = files
            /\ pc' = [pc EXCEPT ![r] = nextUnitThrow("delete")]
            /\ hist' = [hist EXCEPT ![unit[r]].delFailed = TRUE]
            /\ buffers' = buffers
  /\ UNCHANGED <<testFileQueue, options, suiteResults, unit, isTest, passed, success, stdout>>

\* The awaited promise resolved: finally flushes, nextUnit returns true.
Finish(r) ==
  /\ pc[r] = "finish"
  /\ hist' = [hist EXCEPT ![unit[r]].handled = @ + 1]
  /\ pc' = [pc EXCEPT ![r] = StartLoop(nextUnitResult(FALSE))]
  /\ unit' = [unit EXCEPT ![r] = 0]
  /\ isTest' = [isTest EXCEPT ![r] = FALSE]
  /\ passed' = [passed EXCEPT ![r] = TRUE]
  /\ stdout' = flush(buffers[r].main, stdout)
  /\ buffers' = [buffers EXCEPT ![r] = NoBuffers]
  /\ UNCHANGED <<testFileQueue, options, suiteResults, success, files>>

\* The catch block of nextUnit ("Failed to start a test"), then finally and
\* return true.
CatchStartError(r) ==
  /\ pc[r] = "catch"
  /\ success' = [success EXCEPT ![r] = nextUnitCatch(success[r])]
  /\ hist' = [hist EXCEPT ![unit[r]].handled = @ + 1,
                          ![unit[r]].startFailed = TRUE]
  /\ pc' = [pc EXCEPT ![r] = StartLoop(nextUnitResult(TRUE))]
  /\ unit' = [unit EXCEPT ![r] = 0]
  /\ isTest' = [isTest EXCEPT ![r] = FALSE]
  /\ passed' = [passed EXCEPT ![r] = TRUE]
  /\ stdout' = flush(println(buffers[r].main, Line(unit[r], "failedToStart")), stdout)
  /\ buffers' = [buffers EXCEPT ![r] = NoBuffers]
  /\ UNCHANGED <<testFileQueue, options, suiteResults, files>>

\* One step of runner r.
RunnerStep(r) ==
    \/ NextUnitEmpty(r) /\ UNCHANGED <<suiteVars, codecVars>>
    \/ NextUnitSkipped(r) /\ UNCHANGED <<suiteVars, codecVars>>
    \/ NextUnitBuild(r) /\ UNCHANGED <<suiteVars, codecVars>>
    \/ Import(r) /\ UNCHANGED <<suiteVars, codecVars>>
    \/ RunSuite(r) /\ UNCHANGED <<suiteVars, codecVars>>
    \/ DeleteBundle(r) /\ UNCHANGED <<suiteVars, codecVars>>
    \/ DeleteMap(r) /\ UNCHANGED <<suiteVars, codecVars>>
    \/ Finish(r) /\ UNCHANGED <<suiteVars, codecVars>>
    \/ CatchStartError(r) /\ UNCHANGED <<suiteVars, codecVars>>

Next == \E r \in Runners : RunnerStep(r)

\* main with --verbose.
VerboseInit ==
  /\ suiteResults = SuiteResults
  /\ testFileQueue = DiscoveredUnits
  /\ options \in {Opts(TRUE, NoPattern, f) : f \in FilePatterns}
  /\ pc = [r \in Runners |-> "idle"]
  /\ unit = [r \in Runners |-> 0]
  /\ isTest = [r \in Runners |-> FALSE]
  /\ passed = [r \in Runners |-> TRUE]
  /\ success = [r \in Runners |-> TRUE]
  /\ files = {}
  /\ hist = [u \in Units |-> NoHistory]
  /\ buffers = [r \in Runners |-> NoBuffers]
  /\ stdout = {}
  /\ sTree = 1
  /\ sOpts = Opts(FALSE, NoPattern, NoPattern)
  /\ sMap = "ok"
  /\ sPc = "done"
  /\ sSt = InitSt(TRUE)
  /\ cCall = Call("none", FALSE, <<>>, <<>>, <<>>, 0, 0)
  /\ cPc = "done"
  /\ cText = <<>>
  /\ cOut = NoResult

Spec == Init /\ [][Next]_vars

VerboseSpec == VerboseInit /\ [][Next]_vars

\* The runs in which every runner whose start loop can take a step takes one:
\* each awaited build, import, suite, delete settles and its continuation is
\* run by the event loop.
FairSpec == Spec /\ \A r \in Runners : WF_vars(RunnerStep(r))

\* Promise.all(testRunners.map(start)) has resolved.
AllStopped == \A r \in Runners : pc[r] = "stopped"

\* testRunners.some((runner) => !runner.success)
RunFailed == \E r \in Runners : ~success[r]

\* ================================================================ Spec claims
\* ---- C1
\* C1: under every interleaving of the runners, no unit is popped twice, no
\* two runners hold the same unit, and once all runners have stopped every
\* unit was popped once and its nextUnit call has completed once.
C1_EachUnitProcessedExactlyOnce ==
  /\ \A u \in Units : hist[u].pops <= 1 /\ hist[u].handled <= hist[u].pops
  /\ \A r1, r2 \in Runners :
       (r1 # r2 /\ unit[r1] # 0) => unit[r1] # unit[r2]
  /\ AllStopped => \A u \in Units : hist[u].pops = 1 /\ hist[u].handled = 1

\* All runners have stopped after two different runners each processed a
\* unit up to its suite (each has its own success flag cleared).
C1_Witness ==
  /\ AllStopped
  /\ \A u \in Units : hist[u].pops = 1 /\ hist[u].handled = 1
  /\ \E r1, r2 \in Runners : r1 # r2 /\ ~success[r1] /\ ~success[r2]
  /\ \E u1, u2 \in Units : u1 # u2 /\ hist[u1].failedCase /\ hist[u2].failedCase

\* ---- C2
\* C2 as stated: after all runners have stopped the run is failed if and only
\* if some unit failed to build or contained a failing case.
C2_FailedIffBuildOrCaseFailureAsClaimed ==
  AllStopped =>
    (RunFailed <=> \E u \in Units : hist[u].built = "failed" \/ hist[u].failedCase)

\* C2 amended: after all runners have stopped the run is failed if and only
\* if some unit failed to build, could not be loaded or was not a test tree,
\* had an artifact deletion fail, or contained a failing case or a throwing
\* hook.
C2_FailedIffSomeUnitFailed ==
  AllStopped =>
    (RunFailed <=>
       \E u \in Units :
         \/ hist[u].built = "failed"
         \/ hist[u].load \in {"rejected", "notTest"}
         \/ hist[u].delFailed
         \/ hist[u].failedCase
         \/ hist[u].hookThrew)

\* The run is failed although every unit was built and no case failed: a hook
\* threw.
C2_Witness ==
  /\ AllStopped
  /\ RunFailed
  /\ \A u \in Units : hist[u].built = "ok" /\ ~hist[u].failedCase
  /\ \E u \in Units : hist[u].hookThrew

\* ---- C3
\* C3: once nextUnit has finished a unit whose build produced the artifacts,
\* neither the bundle nor its map exists (no delete having failed).
C3_ArtifactsGoneAfterUnitAsClaimed ==
  \A u \in Units :
    (hist[u].built = "ok" /\ hist[u].handled = 1 /\ ~hist[u].delFailed) =>
      (BundleFile(u) \notin files /\ MapFile(u) \notin files)

\* ---- C17
\* The file of unit u does not match the file pattern the run was started with.
FilteredOut(u) ==
  /\ options.testFilePattern # NoPattern
  /\ options.testFilePattern \notin Range(UnitFile(u))

ArtifactsOf(u) == {BundleFile(u), MapFile(u)}

\* Nothing but the pop (and in verbose mode the SKIPPED line) happened to u.
OnlyConsumed(u) ==
  /\ hist[u].built = "no" /\ hist[u].load = "none"
  /\ ~hist[u].failedCase /\ ~hist[u].hookThrew
  /\ ~hist[u].delFailed /\ ~hist[u].startFailed
  /\ hist[u].summary \in {"none", "SKIPPED"}
  /\ hist[u].handled = hist[u].pops
  /\ ArtifactsOf(u) \cap files = {}
  /\ \A r \in Runners : unit[r] # u

\* C17: a unit whose file does not match the file pattern is never built or
\* loaded, none of its suite code runs and no artifact of it exists at any
\* time; the step that takes it from the queue removes it and leaves every
\* runner's success flag, the files and the runner's position unchanged.
C17_FilteredUnitSkippedEntirely ==
  /\ [](\A u \in Units : FilteredOut(u) => OnlyConsumed(u))
  /\ [][\A u \in Units :
          (FilteredOut(u) /\ hist'[u].pops # hist[u].pops) =>
            /\ testFileQueue' = SubSeq(testFileQueue, 1, Len(testFileQueue) - 1)
            /\ hist'[u].handled = 1
            /\ UNCHANGED <<success, files, pc, unit>>]_vars

\* The run has ended: the unit filtered out was consumed and nothing else
\* happened to it, while the other unit was built and ran its suite.
C17_Witness ==
  /\ AllStopped
  /\ \E u \in Units :
       FilteredOut(u) /\ hist[u].pops = 1 /\ hist[u].handled = 1 /\ OnlyConsumed(u)
  /\ \E u \in Units : ~FilteredOut(u) /\ hist[u].built = "ok" /\ hist[u].summary = "FAILED"

\* ---- C18
\* C18: for a unit whose build failed no module is loaded, no suite runs, no
\* artifact is deleted and no summary is written: its runner goes from the
\* build straight to the catch block, which reports the failed start and
\* clears the runner's success flag, and then the runner is free for the next
\* unit.
C18_BuildFailureStopsUnitOnly ==
  \A u \in Units :
    hist[u].built = "failed" =>
      /\ hist[u].load = "none"
      /\ ~hist[u].failedCase /\ ~hist[u].hookThrew
      /\ ~hist[u].delFailed
      /\ hist[u].summary = "none"
      /\ \A r \in Runners : unit[r] = u => pc[r] = "catch"
      /\ hist[u].handled = 0 => \E r \in Runners : unit[r] = u
      /\ hist[u].handled = 1 =>
           /\ hist[u].startFailed
           /\ RunFailed
           /\ \A r \in Runners : unit[r] # u

\* The build of one unit failed, and the run went on: all runners have
\* stopped, the other unit was built, ran and passed, and the run is failed.
C18_Witness ==
  /\ AllStopped
  /\ RunFailed
  /\ \E u1, u2 \in Units :
       /\ hist[u1].built = "failed" /\ hist[u1].startFailed /\ hist[u1].summary = "none"
       /\ hist[u2].built = "ok" /\ hist[u2].summary = "PASSED"

\* ---- C19
\* C19: when the default export of a built bundle does not have the shape of
\* a test tree, runTest is not called (no hook, no case, no summary), the
\* runner deletes the bundle and the map and then fails the unit in the catch
\* block, which clears its success flag; once the unit is finished, both
\* artifacts are gone unless a delete failed.
C19_NotATestFailsUnitOnly ==
  \A u \in Units :
    hist[u].load = "notTest" =>
      /\ ~hist[u].failedCase /\ ~hist[u].hookThrew
      /\ hist[u].summary = "none"
      /\ \A r \in Runners :
           unit[r] = u => (pc[r] \in {"delBundle", "delMap", "catch"} /\ ~isTest[r])
      /\ hist[u].handled = 0 => \E r \in Runners : unit[r] = u
      /\ hist[u].handled = 1 =>
           /\ hist[u].startFailed
           /\ RunFailed
           /\ \A r \in Runners : unit[r] # u
           /\ ~hist[u].delFailed => ArtifactsOf(u) \cap files = {}

\* The bundle of one unit exported no test tree: the unit failed to start with
\* both artifacts deleted, the other unit passed, and the run is failed.
C19_Witness ==
  /\ AllStopped
  /\ RunFailed
  /\ files = {}
  /\ \E u1, u2 \in Units :
       /\ hist[u1].load = "notTest" /\ hist[u1].startFailed /\ ~hist[u1].delFailed
       /\ hist[u2].load = "test" /\ hist[u2].summary = "PASSED"

\* ---- C20
\* C20: in every fair run all start loops eventually stop; a start loop stops
\* only on an empty queue; and when all have stopped every unit was taken and
\* finished, whatever failed on the way.
C20_StartLoopsStopOnEmptyBacklog ==
  /\ <>AllStopped
  /\ [](\A r \in Runners : pc[r] = "stopped" => testFileQueue = <<>>)
  /\ [](AllStopped => \A u \in Units : hist[u].pops = 1 /\ hist[u].handled = 1)

\* All runners have stopped after one unit failed to build and the other had
\* a throwing hook.
C20_Witness ==
  /\ AllStopped
  /\ testFileQueue = <<>>
  /\ \E u1, u2 \in Units :
       /\ hist[u1].built = "failed" /\ hist[u1].handled = 1
       /\ hist[u2].hookThrew /\ hist[u2].handled = 1

\* ---- C21
\* C21: no step of any runner sets a success flag that is false back to
\* true, whatever the runner goes on to do (passing cases, suites, units).
C21_SuccessFlagMonotonic ==
  [][\A r \in Runners : ~success[r] => ~success'[r]]_vars

\* A runner whose flag is false has run a second unit, which passed, up to
\* its summary line.
C21_Witness ==
  \E r \in Runners :
    /\ ~success[r]
    /\ pc[r] = "finish"
    /\ passed[r]
    /\ hist[unit[r]].summary = "PASSED"
    /\ ~hist[unit[r]].failedCase /\ ~hist[unit[r]].hookThrew

\* ---- C23
\* C23: a failed delete of the bundle or of the map is swallowed: the unit's
\* start is not reported as failed, the other artifact is deleted, a test
\* unit gets its PASSED or FAILED line, and the run is failed only if some
\* unit failed for another reason.
C23_DeleteFailureSwallowedAsClaimed ==
  /\ \A u \in Units :
       (hist[u].delFailed /\ hist[u].handled = 1) =>
         /\ ~hist[u].startFailed
         /\ Cardinality(ArtifactsOf(u) \cap files) <= 1
         /\ hist[u].load = "test" => hist[u].summary \in {"PASSED", "FAILED"}
  /\ (AllStopped /\ RunFailed) =>
       \E u \in Units :
         \/ hist[u].built = "failed"
         \/ hist[u].load \in {"rejected", "notTest"}
         \/ hist[u].failedCase
         \/ hist[u].hookThrew

\* ---- C26
\* The steps of nextUnit that load, read or delete an artifact: the import
\* of the bundle, the suite run (which reads the map when something failed)
\* and the two deletes.
ArtifactSteps == {"built", "loaded", "delBundle", "delMap"}

\* Runner r is about to load, read or delete an artifact of its unit.
UsesArtifacts(r) == pc[r] \in ArtifactSteps

\* C26: a runner that takes a step that loads, reads or deletes an artifact
\* has popped a unit, has built it and is not done with it, and no other
\* runner has that unit; and a bundle or map file is created or deleted only
\* in a step of the runner that has its unit, before that unit is done with.
C26_ArtifactsOwnedByOneRunner ==
  [][/\ \A r \in Runners :
          (UsesArtifacts(r) /\ pc'[r] # pc[r]) =>
            /\ unit[r] \in Units
            /\ hist[unit[r]].pops = 1
            /\ hist[unit[r]].built = "ok"
            /\ hist[unit[r]].handled = 0
            /\ \A q \in Runners \ {r} : unit[q] # unit[r]
     /\ files' # files =>
          \A u \in Units :
            (ArtifactsOf(u) \cap files # ArtifactsOf(u) \cap files') =>
              /\ hist[u].handled = 0
              /\ \E r \in Runners :
                   /\ pc'[r] # pc[r]
                   /\ unit'[r] = u
                   /\ unit[r] \in {0, u}
                   /\ \A q \in Runners \ {r} : unit[q] # u /\ pc'[q] = pc[q]]_vars

\* Two runners are at work on the artifacts of two units at the same time:
\* one is about to run the suite, the other has deleted its bundle and is
\* about to delete its map.
C26_Witness ==
  \E r1, r2 \in Runners :
    /\ pc[r1] = "loaded" /\ pc[r2] = "delMap"
    /\ unit[r1] # unit[r2]
    /\ ArtifactsOf(unit[r1]) \subseteq files
    /\ ArtifactsOf(unit[r2]) \cap files = {MapFile(unit[r2])}

\* ---- C25
\* The lines of a buffer or block are all about unit u.
AllAbout(lines, u) == \A i \in DOMAIN lines : lines[i].unit = u

\* A summary line first, and after it nothing but the unit's info output.
SummaryThenInfo(lines) ==
  /\ lines # <<>>
  /\ lines[1].kind \in {"PASSED", "FAILED"}
  /\ \A i \in DOMAIN lines : i > 1 => lines[i].kind = "info"

\* C25: what runTest prints for a unit is held in the buffers made for that
\* unit and nowhere else while the unit is worked on; a main output holds
\* lines only when its runner's unit has run its suite and got its summary
\* line, and then the summary line first and the unit's info output after
\* it, all of that one unit; and every block written to standard output is
\* about one unit done with, holds no error output (that is kept in the
\* unit's own buffer) and info output only behind that unit's summary line.
C25_UnitOutputIsolated ==
  /\ \A r \in Runners :
       /\ AllAbout(buffers[r].info, unit[r])
       /\ AllAbout(buffers[r].err, unit[r])
       /\ AllAbout(buffers[r].main, unit[r])
       /\ (pc[r] \in {"loaded", "delBundle", "delMap", "catch"}) =>
            buffers[r].main = <<>>
       /\ buffers[r].main # <<>> =>
            /\ pc[r] = "finish"
            /\ hist[unit[r]].load = "test"
            /\ SummaryThenInfo(buffers[r].main)
       /\ \A q \in Runners \ {r} :
            \A i \in DOMAIN buffers[q].main :
              unit[r] # 0 => buffers[q].main[i].unit # unit[r]
  /\ \A block \in stdout :
       /\ AllAbout(block, block[1].unit)
       /\ hist[block[1].unit].handled = 1
       /\ \A i \in DOMAIN block : block[i].kind # "error"
       /\ (\E i \in DOMAIN block : block[i].kind = "info") => SummaryThenInfo(block)

\* Two verbose runners: one has flushed the summary and the info output of
\* its unit, while the other holds the summary and the info output of a
\* second unit in its main output, not flushed yet.
C25_Witness ==
  /\ options.verbose
  /\ \E r \in Runners, block \in stdout :
       /\ pc[r] = "finish"
       /\ Len(buffers[r].main) = 2
       /\ buffers[r].main[2] = Line(unit[r], "info")
       /\ Len(block) = 2
       /\ block[2].kind = "info"
       /\ block[1].unit # unit[r]

\* ---- C31
\* C31: every unit that loaded as a test tree and is done with has its one
\* summary line, PASSED or FAILED, and it is PASSED exactly when no case and
\* no hook of the tree threw; and a runner that has written FAILED has its
\* success flag false.
C31_SummaryLineForEveryTestAsClaimed ==
  /\ \A u \in Units :
       (hist[u].load = "test" /\ hist[u].handled = 1) =>
         /\ hist[u].summary \in {"PASSED", "FAILED"}
         /\ hist[u].summary = "PASSED" <=>
              (~hist[u].failedCase /\ ~hist[u].hookThrew)
  /\ \A r \in Runners :
       (pc[r] = "finish" /\ hist[unit[r]].summary = "FAILED") => ~success[r]

\* ---- C33
\* The positions a running start() can be at; "rejected" would be a start()
\* whose nextUnit call threw.
StartPositions ==
  {"idle", "built", "loaded", "delBundle", "delMap", "finish", "catch", "stopped"}

\* Something was thrown or rejected inside the processing of unit u, outside
\* its suite run.
ThrewInUnit(u) ==
  \/ hist[u].built = "failed"
  \/ hist[u].load \in {"rejected", "notTest"}
  \/ hist[u].delFailed

\* C33: no start() is ever rejected; a runner between two nextUnit calls
\* holds no unit and has flushed its main output; and every unit whose
\* build, load, tree validation or artifact deletion threw is done with by a
\* nextUnit call that caught the error, reported it on standard output and
\* returned, as is every unit in which hooks or cases threw.
C33_NothingEscapesNextUnit ==
  /\ \A r \in Runners :
       /\ pc[r] \in StartPositions
       /\ pc[r] \in {"idle", "stopped"} =>
            /\ unit[r] = 0
            /\ buffers[r].main = <<>>
  /\ \A u \in Units :
       /\ (hist[u].pops = 1 /\ \A r \in Runners : unit[r] # u) =>
            hist[u].handled = 1
       /\ (ThrewInUnit(u) /\ hist[u].handled = 1) =>
            /\ hist[u].startFailed
            /\ <<Line(u, "failedToStart")>> \in stdout

\* Both runners have returned from all their nextUnit calls and stopped
\* after one unit had a rejected delete behind a suite in which a hook threw,
\* and the other was not a test tree.
C33_Witness ==
  /\ AllStopped
  /\ \E u1, u2 \in Units :
       /\ hist[u1].hookThrew /\ hist[u1].delFailed /\ hist[u1].handled = 1
       /\ hist[u2].load = "notTest" /\ hist[u2].handled = 1
       /\ <<Line(u1, "failedToStart")>> \in stdout
       /\ <<Line(u2, "failedToStart")>> \in stdout

\* ============================================================ SuiteSpec claims
\* Vocabulary for reading the call log of a finished runTest call.
T == Trees[sTree]

Log == sSt.log

Done == sPc = "done"

Parent(t, n) ==
  IF \E p \in SuiteNames(t) : n \in Range(t.suites[p].subTests)
  THEN CHOOSE p \in SuiteNames(t) : n \in Range(t.suites[p].subTests)
  ELSE ""

RECURSIVE Ancestors(_, _)
Ancestors(t, n) ==
  IF Parent(t, n) = "" THEN {}
  ELSE {Parent(t, n)} \cup Ancestors(t, Parent(t, n))

\* The suites of the subtree rooted at n.
Below(t, n) == {m \in SuiteNames(t) : m = n \/ n \in Ancestors(t, m)}

\* The suite a case is declared in, and its position there.
SuiteOfCase(t, c) == CHOOSE n \in SuiteNames(t) : c \in Range(t.suites[n].its)

IndexIn(seq, x) == CHOOSE i \in DOMAIN seq : seq[i] = x

\* The names a case's display path is made of, from the root suite down.
RECURSIVE SuitePath(_, _)
SuitePath(t, n) ==
  IF Parent(t, n) = "" THEN <<n>> ELSE Append(SuitePath(t, Parent(t, n)), n)

CasePath(t, c) == Append(SuitePath(t, SuiteOfCase(t, c)), c)

\* The ids of the logged events of one kind made for case c, in log order.
RECURSIVE IdsOf(_, _, _, _)
IdsOf(log, i, kind, c) ==
  IF i > Len(log) THEN <<>>
  ELSE IF log[i].kind = kind /\ log[i].for = c
       THEN <<log[i].id>> \o IdsOf(log, i + 1, kind, c)
       ELSE IdsOf(log, i + 1, kind, c)

\* The ids of the logged events of one kind made by suite n, in log order.
RECURSIVE IdsBy(_, _, _, _)
IdsBy(log, i, kind, n) ==
  IF i > Len(log) THEN <<>>
  ELSE IF log[i].kind = kind /\ log[i].suite = n
       THEN <<log[i].id>> \o IdsBy(log, i + 1, kind, n)
       ELSE IdsBy(log, i + 1, kind, n)

Entered(n) == \E i \in DOMAIN Log : Log[i].kind = "enter" /\ Log[i].id = n

Called(id) ==
  \E i \in DOMAIN Log :
    /\ Log[i].id = id
    /\ Log[i].kind \in {"beforeAll", "beforeEach", "afterEach", "afterAll", "case"}

Skipped(c) == \E i \in DOMAIN Log : Log[i].kind = "skip" /\ Log[i].id = c

IsHookKind(k) == k \in {"beforeAll", "beforeEach", "afterEach", "afterAll"}

\* Event i is the start of an exception: a hook threw, or a case threw an
\* unexpected error whose stack could not be resolved.
Raises(i) ==
  \/ IsHookKind(Log[i].kind) /\ Log[i].res = "throw"
  \/ Log[i].kind = "case" /\ Log[i].res = "error" /\ sMap = "corrupt"

\* Nothing inside the subtree of n raised an exception.
QuietBelow(n) ==
  \A i \in DOMAIN Log : Log[i].suite \in Below(T, n) => ~Raises(i)

\* The subtree of n was run from its first hook to its last: the suite was
\* entered, and unless something inside it raised an exception every suite of
\* the subtree was entered, every case handled and every hook called.
RanInFull(n) ==
  /\ Entered(n)
  /\ QuietBelow(n) =>
       \A m \in Below(T, n) :
         /\ Entered(m)
         /\ \A c \in Range(T.suites[m].its) : Called(c) \/ Skipped(c)
         /\ \A h \in Range(T.suites[m].beforeAll) \cup Range(T.suites[m].afterAll) :
              Called(h)

\* The afterAll hooks of suite n were run as far as they go: in declaration
\* order, each one unless an earlier one threw.
AfterAllRun(n) ==
  LET aa == T.suites[n].afterAll
      ran == IdsBy(Log, 1, "afterAll", n)
  IN /\ Len(ran) <= Len(aa)
     /\ ran = SubSeq(aa, 1, Len(ran))
     /\ Len(ran) < Len(aa) =>
          /\ Len(ran) > 0
          /\ \E i \in DOMAIN Log :
               Log[i].kind = "afterAll" /\ Log[i].id = ran[Len(ran)] /\ Log[i].res = "throw"

\* After event k nothing of the subtree of suite n happens but n's return.
NothingBelowAfter(n, k) ==
  \A j \in DOMAIN Log :
    (j > k /\ Log[j].suite \in Below(T, n)) => (Log[j].kind = "exit" /\ Log[j].id = n)

\* ---- C4
\* The hook chains the claim names: beforeEach outermost ancestor first, the
\* suite's own last; afterEach the suite's own first, then its ancestors'
\* innermost first.
RECURSIVE ClaimedBeforeEach(_, _)
ClaimedBeforeEach(t, n) ==
  IF Parent(t, n) = "" THEN t.suites[n].beforeEach
  ELSE ClaimedBeforeEach(t, Parent(t, n)) \o t.suites[n].beforeEach

RECURSIVE ClaimedAfterEach(_, _)
ClaimedAfterEach(t, n) ==
  IF Parent(t, n) = "" THEN t.suites[n].afterEach
  ELSE t.suites[n].afterEach \o ClaimedAfterEach(t, Parent(t, n))

\* Case c was handled with both hook chains run to their end.
ChainsCompleted(c) ==
  /\ \E i \in DOMAIN Log : Log[i].kind \in {"case", "skip"} /\ Log[i].id = c /\ ~Raises(i)
  /\ \A i \in DOMAIN Log : Log[i].for = c => ~Raises(i)

\* C4: around every case of every suite, at any depth, the beforeEach hooks run
\* are the ancestors' (outermost first) then the suite's own, and the afterEach
\* hooks run are the suite's own then the ancestors' (innermost first).
C4_HookInheritanceAsClaimed ==
  Done =>
    \A c \in AllCases(T) :
      ChainsCompleted(c) =>
        /\ IdsOf(Log, 1, "beforeEach", c) = ClaimedBeforeEach(T, SuiteOfCase(T, c))
        /\ IdsOf(Log, 1, "afterEach", c) = ClaimedAfterEach(T, SuiteOfCase(T, c))

\* ---- C5
\* C5: when a beforeAll hook of suite S throws, nothing else of S or below S
\* is executed, and every ancestor of S still enters all its child suites and
\* runs its afterAll hooks.
C5_BeforeAllFailureAbortsSubtreeOnly ==
  Done =>
    \A k \in DOMAIN Log :
      (Log[k].kind = "beforeAll" /\ Log[k].res = "throw") =>
        /\ NothingBelowAfter(Log[k].suite, k)
        /\ \A c \in Range(T.suites[Log[k].suite].its) : ~Called(c) /\ ~Skipped(c)
        /\ \A A \in Ancestors(T, Log[k].suite) :
             /\ \A ch \in Range(T.suites[A].subTests) : Entered(ch)
             /\ AfterAllRun(A)
             /\ T.suites[A].afterAll # <<>> => Called(T.suites[A].afterAll[1])

\* A child suite's beforeAll hook threw and the root's afterAll hooks ran.
C5_Witness ==
  /\ Done
  /\ sTree = 1
  /\ \E k \in DOMAIN Log :
       Log[k].kind = "beforeAll" /\ Log[k].suite = "B" /\ Log[k].res = "throw"
  /\ Entered("C")
  /\ Called("A.aa1") /\ Called("A.aa2")
  /\ ~Entered("D")

\* ---- C6
\* C6: when a beforeEach hook throws while preparing case N of suite S, the
\* cases after N in S are never executed, and every later sibling suite of S
\* is run in full.
C6_BeforeEachFailureStopsLaterCases ==
  Done =>
    \A k \in DOMAIN Log :
      (Log[k].kind = "beforeEach" /\ Log[k].res = "throw") =>
        LET S == Log[k].suite
            its == T.suites[S].its
            N == IndexIn(its, Log[k].for)
        IN /\ \A m \in DOMAIN its : m > N => ~Called(its[m]) /\ ~Skipped(its[m])
           /\ Parent(T, S) # "" =>
                LET sibs == T.suites[Parent(T, S)].subTests
                IN \A m \in DOMAIN sibs : m > IndexIn(sibs, S) => RanInFull(sibs[m])

\* A beforeEach hook threw before the first case of B, B's second case never
\* ran, and the sibling suite C ran its case and its afterAll hook.
C6_Witness ==
  /\ Done
  /\ sTree = 1
  /\ \E k \in DOMAIN Log :
       /\ Log[k].kind = "beforeEach" /\ Log[k].suite = "B"
       /\ Log[k].for = "c" /\ Log[k].res = "throw"
  /\ ~Called("d")
  /\ Called("f") /\ Called("C.aa1")

\* ---- C7
\* C7: a suite whose beforeAll hooks all succeeded runs its afterAll hooks, in
\* declaration order, after its cases and child suites, whatever failed in
\* between (here with a readable or missing map file, so that a failing case
\* is reported inside runTestCase); a suite whose beforeAll threw runs none.
C7_AfterAllAlwaysRunsAsClaimed ==
  (Done /\ sMap # "corrupt") =>
    \A n \in SuiteNames(T) :
      Entered(n) =>
        IF \E k \in DOMAIN Log :
             Log[k].kind = "beforeAll" /\ Log[k].suite = n /\ Log[k].res = "throw"
        THEN IdsBy(Log, 1, "afterAll", n) = <<>>
        ELSE /\ AfterAllRun(n)
             /\ T.suites[n].afterAll # <<>> => Called(T.suites[n].afterAll[1])
             /\ \A i, j \in DOMAIN Log :
                  (/\ Log[i].kind = "afterAll" /\ Log[i].suite = n
                   /\ Log[j].suite \in Below(T, n)
                   /\ Log[j].kind \notin {"afterAll", "exit"}) => j < i

NothingFailed ==
  \A i \in DOMAIN Log :
    /\ IsHookKind(Log[i].kind) => Log[i].res = "ok"
    /\ Log[i].kind = "case" => Log[i].res = "ok"

\* C9: with a name filter set, the callback of a case whose display path does
\* not match is never invoked, the case counts as passed (it is logged as
\* skipped and does not fail its suite), and a run whose executed callbacks
\* all pass returns true and leaves the success flag true.
C9_FilteredCasesSkippedAndPass ==
  Done =>
    /\ \A c \in AllCases(T) :
         (sOpts.testNamePattern # NoPattern
            /\ sOpts.testNamePattern \notin Range(CasePath(T, c))) =>
           /\ ~Called(c)
           /\ Entered(SuiteOfCase(T, c)) /\ QuietBelow(T.root) => Skipped(c)
    /\ NothingFailed => (sSt.result = TRUE /\ sSt.success = TRUE)

\* Pattern "b" on the flat tree {A>a, A>b, A>c}: only b's callback ran, a and c
\* were skipped, and the run passed.
C9_Witness ==
  /\ Done
  /\ sTree = 2
  /\ sOpts.testNamePattern = "b"
  /\ Called("b") /\ ~Called("a") /\ ~Called("c")
  /\ Skipped("a") /\ Skipped("c")
  /\ sSt.result = TRUE /\ sSt.success = TRUE

\* ---- C10
\* C10: around a case skipped by the name filter no beforeEach or afterEach
\* hook is executed.
C10_NoHooksAroundSkippedCaseAsClaimed ==
  Done =>
    \A c \in AllCases(T) :
      Skipped(c) =>
        \A i \in DOMAIN Log :
          Log[i].kind \in {"beforeEach", "afterEach"} => Log[i].for # c

\* ---- C11
\* The callback of a case was invoked at event k (its beforeEach chain had
\* completed): the afterEach hooks run for the case.
AfterEachFor(c) == IdsOf(Log, 1, "afterEach", c)

NoAfterEachThrewFor(c) ==
  \A i \in DOMAIN Log :
    (Log[i].kind = "afterEach" /\ Log[i].for = c) => Log[i].res = "ok"

\* C11: for every case whose callback was invoked, whether it passed, failed
\* an assertion or threw an unexpected error, the afterEach hooks of its suite
\* and of the suite's ancestors are run after the callback (all of them unless
\* one of them throws), and after a failing case the next case of the same
\* suite is still taken up.
C11_AfterEachRunsWhateverTheCaseDidAsClaimed ==
  Done =>
    \A k \in DOMAIN Log :
      Log[k].kind = "case" =>
        LET c == Log[k].id
            its == T.suites[Log[k].suite].its
            N == IndexIn(its, c)
            chain == Range(ClaimedAfterEach(T, Log[k].suite))
            ran == Range(AfterEachFor(c))
        IN /\ ran \subseteq chain
           /\ chain # {} => ran # {}
           /\ NoAfterEachThrewFor(c) => ran = chain
           /\ \A i \in DOMAIN Log :
                (Log[i].kind = "afterEach" /\ Log[i].for = c) => i > k
           /\ (Log[k].res # "ok" /\ NoAfterEachThrewFor(c) /\ N < Len(its)) =>
                \E j \in DOMAIN Log : j > k /\ Log[j].for = its[N + 1]

\* ---- C12
HookThrew(e) == IsHookKind(e.kind) /\ e.res = "throw"

CaseFailed(e) == e.kind = "case" /\ e.res # "ok"

\* The number of hooks that threw, and of cases that failed, in the log.
HookFailures == Cardinality({i \in DOMAIN Log : HookThrew(Log[i])})

CaseFailures == Cardinality({i \in DOMAIN Log : CaseFailed(Log[i])})

\* C12: every hook failure, at any nesting level, makes exactly one entry in
\* the error output: the entries of a finished run are one per throwing hook
\* and one per failing case, the catch block of runTest adding none for the
\* NoLogError of a hook; and the success flag is cleared.
C12_HookFailureReportedOnce ==
  Done =>
    /\ sSt.err = HookFailures + CaseFailures
    /\ (\E i \in DOMAIN Log : HookThrew(Log[i])) =>
         (sSt.success = FALSE /\ sSt.result = FALSE /\ sSt.thrown = "none")

\* Two hooks threw, one of them three suites deep (the beforeEach hook of D),
\* no case failed, and the error output has two entries.
C12_Witness ==
  /\ Done
  /\ sTree = 1
  /\ \E i \in DOMAIN Log : HookThrew(Log[i]) /\ Log[i].id = "D.be1"
  /\ HookFailures = 2
  /\ CaseFailures = 0
  /\ sSt.err = 2

\* ---- C22
\* C22: a failing case (assertion failure or unexpected error) stops nothing
\* but itself, whatever the state of the map file: in a run in which no hook
\* throws, every suite is entered, every case is handled, and every hook of
\* every suite and every afterEach hook around every executed case is run.
C22_CaseFailureIsCaseFatalOnlyAsClaimed ==
  (Done /\ \A i \in DOMAIN Log : IsHookKind(Log[i].kind) => Log[i].res = "ok") =>
    /\ sSt.thrown = "none"
    /\ \A n \in SuiteNames(T) :
         /\ Entered(n)
         /\ \A c \in Range(T.suites[n].its) :
              /\ Called(c) \/ Skipped(c)
              /\ Range(AfterEachFor(c)) = Range(ClaimedAfterEach(T, n))
         /\ \A h \in Range(T.suites[n].beforeAll) \cup Range(T.suites[n].afterAll) :
              Called(h)

\* ---- C24
\* C24: after a whole run of a unit's suite tree the suite objects are what
\* they were before it: same names, hooks, cases and child suites per suite.
C24_TreeUnchangedByRun ==
  Done => sSt.tree = T

\* A run has descended into a child suite whose parent has beforeEach and
\* afterEach hooks, and executed a case there with the composed lists.
C24_Witness ==
  /\ Done
  /\ \E n \in SuiteNames(T) :
       /\ n # T.root
       /\ T.suites[Parent(T, n)].beforeEach # <<>>
       /\ T.suites[Parent(T, n)].afterEach # <<>>
       /\ \E c \in Range(T.suites[n].its) :
            /\ Called(c)
            /\ \E i \in DOMAIN Log :
                 /\ Log[i].kind = "beforeEach" /\ Log[i].for = c
                 /\ Log[i].id \in Range(T.suites[Parent(T, n)].beforeEach)

\* ---- C27
\* C27: the map file of a unit is not read when no hook and no case failed,
\* and is read and parsed exactly once when one or more of them failed.
C27_MapReadAtMostOnceAsClaimed ==
  Done =>
    /\ NothingFailed => sSt.mapReads = 0
    /\ ~NothingFailed => sSt.mapReads = 1

\* ---- C28
\* The log positions of the events suite n made itself, by kind, of the
\* events made for case c, and of everything done in the subtree of m.
At(kinds, n) ==
  {i \in DOMAIN Log : Log[i].kind \in kinds /\ Log[i].suite = n}

AtCase(kinds, c) ==
  {i \in DOMAIN Log : Log[i].kind \in kinds /\ Log[i].for = c}

WithinSubtree(m) ==
  LET below == Below(T, m)
  IN {i \in DOMAIN Log : Log[i].suite \in below}

AllBefore(A, B) == \A i \in A, j \in B : i < j

CaseKinds == {"beforeEach", "case", "skip", "afterEach"}

\* The positions S are one stretch of the log that starts with the call of
\* suite m and ends with its return.
OneCallOf(m, S) ==
  LET first == CHOOSE i \in S : \A j \in S : i <= j
      last == CHOOSE i \in S : \A j \in S : j <= i
  IN S # {} =>
       /\ Log[first].kind = "enter" /\ Log[first].id = m
       /\ Log[last].kind = "exit" /\ Log[last].id = m
       /\ Cardinality(S) = last - first + 1

\* C28: in every suite, the beforeAll hooks run in declaration order and
\* all of them have returned before the first beforeEach hook or case; per
\* case the beforeEach hooks have returned before the callback and the
\* afterEach hooks start after it; the cases run in declaration order and
\* all before the first child suite; the child suites run one after the
\* other in declaration order, each with its whole subtree in one stretch
\* from its call to its return; the afterAll hooks start after the last
\* child suite returned.
C28_OrderWithinSuite ==
  \A n \in SuiteNames(T) :
    LET test == T.suites[n]
        ba == IdsBy(Log, 1, "beforeAll", n)
        baAt == At({"beforeAll"}, n)
        casesAt == At(CaseKinds, n)
        aaAt == At({"afterAll"}, n)
        forCase == [c \in Range(test.its) |-> AtCase(CaseKinds, c)]
        within == [m \in Range(test.subTests) |-> WithinSubtree(m)]
    IN /\ Len(ba) <= Len(test.beforeAll) /\ ba = SubSeq(test.beforeAll, 1, Len(ba))
       /\ AllBefore(baAt, casesAt)
       /\ (casesAt \cup aaAt # {}) =>
            /\ ba = test.beforeAll
            /\ \A i \in baAt : Log[i].res = "ok"
       /\ \A c \in Range(test.its) :
            LET beAt == {i \in forCase[c] : Log[i].kind = "beforeEach"}
                callAt == {i \in forCase[c] : Log[i].kind \in {"case", "skip"}}
                aeAt == {i \in forCase[c] : Log[i].kind = "afterEach"}
            IN /\ AllBefore(beAt, callAt)
               /\ AllBefore(callAt, aeAt)
               /\ callAt # {} =>
                    /\ \A i \in beAt : Log[i].res = "ok"
                    /\ Range(test.beforeEach) \subseteq {Log[i].id : i \in beAt}
       /\ \A c1, c2 \in Range(test.its) :
            IndexIn(test.its, c1) < IndexIn(test.its, c2) =>
              AllBefore(forCase[c1], forCase[c2])
       /\ \A m \in Range(test.subTests) :
            /\ AllBefore(baAt \cup casesAt, within[m])
            /\ AllBefore(within[m], aaAt)
            /\ OneCallOf(m, within[m])
       /\ \A m1, m2 \in Range(test.subTests) :
            IndexIn(test.subTests, m1) < IndexIn(test.subTests, m2) =>
              AllBefore(within[m1], within[m2])

\* A run of a suite with hooks of every kind, two cases and two child
\* suites, one of them with a child of its own, went through all of them.
C28_Witness ==
  /\ Done
  /\ \E n \in SuiteNames(T) :
       /\ Len(T.suites[n].its) >= 2
       /\ Len(T.suites[n].subTests) >= 2
       /\ T.suites[n].beforeAll # <<>> /\ T.suites[n].afterAll # <<>>
       /\ T.suites[n].beforeEach # <<>> /\ T.suites[n].afterEach # <<>>
       /\ \E m \in Range(T.suites[n].subTests) : T.suites[m].subTests # <<>>
       /\ \A m \in Below(T, n) :
            /\ Entered(m)
            /\ \A c \in Range(T.suites[m].its) : Called(c)
            /\ \A h \in HooksOf(T.suites[m]) : Called(h)

\* ---- C32
\* No callback of a case of suite n was invoked: the suite has no cases, or
\* none of them got as far (each was skipped by the name filter, or was not
\* reached).
NoCaseRun(n) == \A c \in Range(T.suites[n].its) : ~Called(c)

\* None of suite n's own beforeAll, beforeEach and afterEach hooks threw.
OwnHooksQuiet(n) ==
  \A i \in DOMAIN Log :
    (Log[i].suite = n /\ Log[i].kind \in {"beforeAll", "beforeEach", "afterEach"}) =>
      Log[i].res = "ok"

\* C32: a suite that is entered and executes none of its cases still runs
\* its beforeAll hooks and, unless one of its own hooks throws, enters all
\* its child suites and runs its afterAll hooks; and when a beforeAll hook of
\* such a suite throws, runTest on the root returns false and the success
\* flag is false.
C32_HooksRunWithoutCases ==
  Done =>
    \A n \in SuiteNames(T) :
      (Entered(n) /\ NoCaseRun(n)) =>
        /\ T.suites[n].beforeAll # <<>> => Called(T.suites[n].beforeAll[1])
        /\ OwnHooksQuiet(n) =>
             /\ \A h \in Range(T.suites[n].beforeAll) : Called(h)
             /\ \A m \in Range(T.suites[n].subTests) : Entered(m)
             /\ AfterAllRun(n)
             /\ T.suites[n].afterAll # <<>> => Called(T.suites[n].afterAll[1])
        /\ (\E i \in DOMAIN Log :
              Log[i].suite = n /\ Log[i].kind = "beforeAll" /\ Log[i].res = "throw") =>
             /\ sSt.result = FALSE
             /\ sSt.success = FALSE
             /\ sSt.thrown = "none"

\* Pattern "zzz" skips every case of the three-level tree: the root still ran
\* its beforeAll hook, entered both child suites and ran its afterAll hooks;
\* the beforeAll hook of child suite B threw, and the run returned false with
\* the success flag false although no case callback was invoked.
C32_Witness ==
  /\ Done
  /\ sTree = 1
  /\ sOpts.testNamePattern = "zzz"
  /\ \A c \in AllCases(T) : ~Called(c)
  /\ Skipped("a") /\ Skipped("b")
  /\ Called("A.ba1") /\ Entered("B") /\ Entered("C")
  /\ Called("A.aa1") /\ Called("A.aa2")
  /\ \E i \in DOMAIN Log : Log[i].id = "B.ba1" /\ Log[i].res = "throw"
  /\ sSt.result = FALSE /\ sSt.success = FALSE

\* ============================================================ CodecSpec claims
CodecDone == cPc = "done"

\* ---- C13
\* C13: decode(encode(n)) is [n] for every 32-bit integer n encoded (zero, the
\* ends of the range and the neighbours of every power of two among them), and
\* decode(encode(seq)) is seq for every array of such integers.
C13_VlqRoundTrip ==
  (CodecDone /\ cCall.op = "encode") =>
    cOut = [threw |-> FALSE, value |-> cCall.numbers]

\* -2^31 was encoded as "B" and decoded back.
C13_Witness ==
  /\ CodecDone
  /\ cCall.op = "encode"
  /\ cCall.isNumber /\ cCall.numbers = <<MinInt32>>
  /\ cText = <<"B">>
  /\ cOut = [threw |-> FALSE, value |-> <<MinInt32>>]

\* ---- C14
\* The 64 value symbols A-Z a-z 0-9 + /.
ValueSymbols == {Alphabet[i] : i \in 1..(Len(Alphabet) - 1)}

\* C14: decode throws for every text that holds a character outside the 64
\* value symbols ("=" being none of them).
C14_DecodeRejectsOtherCharactersAsClaimed ==
  (CodecDone /\ cCall.op = "decode"
     /\ \E i \in DOMAIN cText : cText[i] \notin ValueSymbols) =>
    cOut.threw

\* ---- C15
\* The map of a resolve call as its numbers say it, without the codec.
RECURSIVE GenColumn(_, _)
GenColumn(line, j) ==
  IF j = 0 THEN 0 ELSE GenColumn(line, j - 1) + line[j].fields[1]

\* The sum of field f over the first j segments of a line that have the four
\* fields of a mapped segment.
RECURSIVE SumField(_, _, _)
SumField(line, j, f) ==
  IF j = 0 THEN 0
  ELSE SumField(line, j - 1, f)
         + (IF Len(line[j].fields) >= 4 THEN line[j].fields[f] ELSE 0)

\* Field f accumulated from the start of the map up to segment j of line l.
RECURSIVE Accumulated(_, _, _, _)
Accumulated(lines, l, j, f) ==
  IF l = 1 THEN SumField(lines[1], j, f)
  ELSE Accumulated(lines, l - 1, Len(lines[l - 1]), f) + SumField(lines[l], j, f)

\* The segments of line l whose interval (p, g] holds the 0-based column col.
Matching(lines, l, col) ==
  {j \in DOMAIN lines[l] :
     /\ Len(lines[l][j].fields) >= 4
     /\ GenColumn(lines[l], j - 1) < col
     /\ col <= GenColumn(lines[l], j)}

First(S) == CHOOSE j \in S : \A i \in S : j <= i

\* Every segment of lines 1..l-1, and of line l up to segment j, decodes.
DecodableUpTo(lines, l, j) ==
  /\ \A k \in 1..(l - 1) : \A i \in DOMAIN lines[k] : lines[k][i].ok
  /\ \A i \in 1..j : lines[l][i].ok

\* C15: when line L has a segment of at least four fields whose interval
\* (p, g] of generated columns holds C - 1, getOriginalPosition(L, C) returns,
\* for the first such segment, the file sources[source index], the line
\* original line + 1 and the column (C - 1) + original column - g + 1, source
\* index, original line and original column being the accumulated ones.
C15_MatchedSegmentPosition ==
  (CodecDone /\ cCall.op = "resolve" /\ cCall.line <= Len(cCall.lines)
     /\ Matching(cCall.lines, cCall.line, cCall.column - 1) # {}) =>
    LET L == cCall.line
        j == First(Matching(cCall.lines, L, cCall.column - 1))
        g == GenColumn(cCall.lines[L], j)
        sourceIndex == Accumulated(cCall.lines, L, j, 2)
        originalLine == Accumulated(cCall.lines, L, j, 3)
        originalColumn == Accumulated(cCall.lines, L, j, 4)
    IN DecodableUpTo(cCall.lines, L, j) =>
         /\ cOut.kind = "position"
         /\ cOut.file = (IF sourceIndex \in 0..(Len(MapSources) - 1)
                         THEN MapSources[sourceIndex + 1] ELSE "undefined")
         /\ cOut.line = originalLine + 1
         /\ cOut.column = (cCall.column - 1) + originalColumn - g + 1

\* The mappings ";;UAIG" (generated line 2, column 10 -> source 0, line 4,
\* column 3): getOriginalPosition(3, 11) returned {sources[0], 5, 4}.
C15_Witness ==
  /\ CodecDone
  /\ cCall.op = "resolve"
  /\ cCall.lines = <<<<>>, <<>>, <<Seg(<<10, 0, 4, 3>>)>>>>
  /\ Mappings(cCall.lines) = <<";", ";", "U", "A", "I", "G">>
  /\ cCall.line = 3 /\ cCall.column = 11
  /\ cOut.kind = "position"
  /\ cOut.file = MapSources[1] /\ cOut.line = 5 /\ cOut.column = 4

\* ---- C16
\* The number of ";"-separated lines of the call's mappings.
MappingLines == Len(split(Mappings(cCall.lines), ";"))

AllSegmentsDecode ==
  \A l \in DOMAIN cCall.lines : \A j \in DOMAIN cCall.lines[l] : cCall.lines[l][j].ok

\* C16: for a line beyond the last line of the mappings getOriginalPosition
\* returns null without a single call of decode (so also when a segment of
\* the map does not decode), and for every line 1..number of lines of a map
\* whose segments all decode it returns a position.
C16_NullBeyondLastLine ==
  (CodecDone /\ cCall.op = "resolve") =>
    /\ cCall.line > MappingLines => cOut = ResultNull(0)
    /\ (cCall.line \in 1..MappingLines /\ AllSegmentsDecode) =>
         cOut.kind = "position"

\* A map of two lines, the second with a segment that does not decode, was
\* asked for line 3: null, and nothing was decoded.
C16_Witness ==
  /\ CodecDone
  /\ cCall.op = "resolve"
  /\ Len(cCall.lines) = 2
  /\ ~AllSegmentsDecode
  /\ cCall.line = 3
  /\ cOut = ResultNull(0)

\* ---- C29
\* The segment of line l the answer is read off at: the first one whose
\* interval holds the column, or the last one of the line when none does.
AnsweredAt(lines, l, col) ==
  IF Matching(lines, l, col) = {} THEN Len(lines[l])
  ELSE First(Matching(lines, l, col))

FileOf(sourceIndex) ==
  IF sourceIndex \in 0..(Len(MapSources) - 1)
  THEN MapSources[sourceIndex + 1] ELSE "undefined"

\* C29: the segment that answers a request for line L is found by generated
\* columns summed over the segments of line L alone, from 0 (whatever the
\* lines before L hold), while the file and the line returned are the source
\* index and the original line summed over the mapped segments of all lines
\* 1..L up to that segment, and a matched column is offset by the original
\* column summed in the same way.
C29_ColumnPerLineOthersAccumulate ==
  (CodecDone /\ cCall.op = "resolve" /\ cCall.line <= Len(cCall.lines)) =>
    LET L == cCall.line
        col == cCall.column - 1
        j == AnsweredAt(cCall.lines, L, col)
    IN DecodableUpTo(cCall.lines, L, j) =>
         /\ cOut.kind = "position"
         /\ cOut.file = FileOf(Accumulated(cCall.lines, L, j, 2))
         /\ cOut.line = Accumulated(cCall.lines, L, j, 3) + 1
         /\ Matching(cCall.lines, L, col) # {} =>
              cOut.column - cCall.column =
                Accumulated(cCall.lines, L, j, 4) - GenColumn(cCall.lines[L], j)

\* Three lines of one segment each, at generated column 10 of its line and
\* moving source line by 4 and source column by 3: column 5 of line 3 lies in
\* the third line's (0, 10] and is answered with line 12 + 1 and column
\* 4 + 9 - 10 + 1.
C29_Witness ==
  /\ CodecDone
  /\ cCall.op = "resolve"
  /\ cCall.lines = <<<<Seg(<<10, 0, 4, 3>>)>>, <<Seg(<<10, 0, 4, 3>>)>>,
                     <<Seg(<<10, 0, 4, 3>>)>>>>
  /\ cCall.line = 3 /\ cCall.column = 5
  /\ cOut.kind = "position"
  /\ cOut.file = MapSources[1] /\ cOut.line = 13 /\ cOut.column = 4

\* ---- C30
\* C30: when the requested line is a line of the map and none of its
\* segments holds the column in its interval (the line has no segment, or
\* the column is 0-based at or before the column the first segment starts
\* from, or after the last segment), the answer is not null but the file and
\* line accumulated up to the end of that line, with column 1.
C30_FallbackPosition ==
  (CodecDone /\ cCall.op = "resolve" /\ cCall.line <= Len(cCall.lines)
     /\ Matching(cCall.lines, cCall.line, cCall.column - 1) = {}
     /\ DecodableUpTo(cCall.lines, cCall.line, Len(cCall.lines[cCall.line]))) =>
    LET L == cCall.line
        end == Len(cCall.lines[L])
    IN cOut = ResultPosition(FileOf(Accumulated(cCall.lines, L, end, 2)),
                             Accumulated(cCall.lines, L, end, 3) + 1, 1,
                             cOut.decodes)

\* Line 1 has one segment with interval (0, 10], line 2 has no segment:
\* column 1 of line 1 (0-based 0, the column the segment starts from) and any
\* column of line 2 are answered with {sources[0], 5, 1}.
C30_Witness ==
  /\ CodecDone
  /\ cCall.op = "resolve"
  /\ cCall.lines = <<<<Seg(<<10, 0, 4, 3>>)>>, <<>>>>
  /\ cCall.line = 1 /\ cCall.column = 1
  /\ cOut.kind = "position"
  /\ cOut.file = MapSources[1] /\ cOut.line = 5 /\ cOut.column = 1

====
